---- MODULE Spec2Model ----
(***************************************************************************)
(* Model of the terminal process supervisor of kaizen-term                 *)
(* (electron/main.cjs): the pty:spawn / pty:write / pty:resize / pty:kill  *)
(* handlers, the per-process onData / onExit callbacks, the PID lock file, *)
(* orphan recovery at startup, the output ring buffers with their flush    *)
(* timer, the session log and the application lifecycle handlers.          *)
(*                                                                         *)
(* Every handler of the main process runs to completion on the event loop, *)
(* so each one is a single action.  The operating system (a process dies,  *)
(* a pid is handed out again), the pty library (pty.spawn throws,          *)
(* term.write on a dead pty throws or not) and the user (requests coming   *)
(* from the renderer, quitting) are nondeterministic.                      *)
(***************************************************************************)
EXTENDS Integers, Sequences, FiniteSets, TLC

VARIABLES
    appPhase,             \* "boot" | "ready" | "quitting" | "closed" | "willExit" |
                          \* "exited": where the application run is
    mainWindow,           \* main.cjs:6    TRUE iff mainWindow is not null
    procs,                \* the pty objects pty.spawn returned in this run
    shells,               \* main.cjs:7    session id -> index in procs, 0 = no entry
    pidsFile,             \* main.cjs:47   NoLock, or the lock file with its entries
    orphans,              \* OS processes left by an earlier run: pid -> record
    killTimers,           \* pids with a pending setTimeout(SIGKILL) (main.cjs:186)
    signals,              \* signals process.kill has delivered, in order
    terminalBuffers,      \* main.cjs:55   session id -> NoBuf or Buf(lines)
    bufferFiles,          \* terminal-buffers/<id>.log: NoFile or Buf(lines)
    bufferFlushInterval,  \* main.cjs:56   intervals set and not cleared (0: the handle is null)
    kaizenDirOk,          \* main.cjs:45   ~/.kaizen-term exists or can be created
    arrival,              \* session id -> every line pushed to its buffer, in order
    sessionLog,           \* main.cjs:48   the lines of session.log
    uncaught,             \* handlers an exception has escaped from
    spawnCalls,           \* number of pty:spawn requests handled in this run
    toMain,               \* preload.cjs: requests of the renderer not yet handled
    toRenderer,           \* replies and pty:exit events not yet handled by the renderer
    terminals,            \* terminal-manager.ts:69  session id -> NoInst or instance
    activeId,             \* terminal-manager.ts:70  "null" or a session id
    agentStatus,          \* main.ts:56   state.agents: session id -> status or "none"
    dispatched,           \* CustomEvents the last renderer handler dispatched
    rafPending,           \* ids whose requestAnimationFrame spawn callback is due
    stream,               \* per id: the output its process prints, cut into segments,
                          \* how many the renderer has got, and the boundaries seen
    tasks,                \* main.ts:58   session id -> NoTask or the Kanban task the
                          \* agent of the session was spawned for
    nlOverlay,            \* terminal-manager.ts:749  "null", or the session id the
                          \* overlay on display was opened for
    nlActiveAgentId,      \* terminal-manager.ts:750  "null" or a session id
    tasksFile,            \* main.cjs:46   ~/.kaizen-term/tasks.json: task id -> status,
                          \* "none" for an id the file has no task of
    kanbanTasks,          \* kanban.ts:24  KanbanBoard.tasks, in the same form
    pendingWrite,         \* kanban.ts:33
    debounceTimer,        \* main.cjs:135  TRUE iff the watcher's timeout is pending
    tasksUpdated,         \* tasks:updated messages the renderer has not handled yet
    taskCalls,            \* tasks:add / tasks:update / tasks:delete invocations the
                          \* main process has not handled yet
    appOp,                \* the tasks handler of the main process between its
                          \* loadTasks() and its saveTasks(), or NoOp
    mcpOp,                \* the same for the tool call of the MCP server
    nextTaskId,           \* the ids generateId() and genId() have not given out yet
    lastWrite             \* who wrote tasks.json last: "none" | "app" | "mcp"

supVars == <<appPhase, mainWindow, procs, shells, pidsFile, orphans,
             killTimers, signals, sessionLog, uncaught, kaizenDirOk, spawnCalls>>
bufVars == <<terminalBuffers, bufferFiles, bufferFlushInterval, arrival>>
chanVars == <<toMain, toRenderer>>
nlVars == <<nlOverlay, nlActiveAgentId>>
kanbanVars == <<tasksFile, kanbanTasks, pendingWrite, debounceTimer, tasksUpdated,
                taskCalls, appOp, mcpOp, nextTaskId, lastWrite>>
rendVars == <<terminals, activeId, agentStatus, dispatched, rafPending, stream, tasks, nlVars,
              kanbanVars>>
vars == <<supVars, bufVars, chanVars, rendVars>>

----------------------------------------------------------------------------
(* Bounds of the model *)

Ids == {"s1", "s2"}          \* session ids the renderer uses
MaxSpawns == 2               \* pty:spawn is requested at most this often in a run
MaxBufLines == 1             \* a session's process stops printing at this many lines
MaxHeadroom == 1             \* free lines of a ring buffer that has filled up
MaxOverflow == 2             \* lines a session prints beyond the buffer capacity
OrphanPids == {1, 2}         \* pids a lock file left by an earlier run can list

NoBuf == [exists |-> FALSE, lines |-> <<>>]
NoFile == NoBuf
Buf(lines) == [exists |-> TRUE, lines |-> lines]
NoLock == [exists |-> FALSE, entries |-> {}]
LockFile(entries) == [exists |-> TRUE, entries |-> entries]

----------------------------------------------------------------------------
(* Text: a chunk is a sequence of characters *)

ESC == "ESC"
CR == "CR"
LF == "LF"
BEL == "BEL"
DecDigits == {"0", "1", "2", "3", "4", "5", "6", "7", "8", "9"}      \* [0-9]
Digits == DecDigits \cup {";"}                                       \* [0-9;]
Lower == {"a", "b", "c", "d", "e", "f", "g", "h", "i", "j", "k", "l", "m",
          "n", "o", "p", "q", "r", "s", "t", "u", "v", "w", "x", "y", "z"}
Upper == {"A", "B", "C", "D", "E", "F", "G", "H", "I", "J", "K", "L", "M",
          "N", "O", "P", "Q", "R", "S", "T", "U", "V", "W", "X", "Y", "Z"}
Letters == Lower \cup Upper                                          \* [a-zA-Z]
Blank == {" "}                           \* what String.trim removes (besides CR, LF)

RING_BUFFER_MAX_LINES == 200

\* The least and the greatest element of a non-empty set of positions.
MinOf(ps) == CHOOSE p \in ps : \A q \in ps : p <= q
MaxOf(ps) == CHOOSE p \in ps : \A q \in ps : q <= p

\* The k-th element of a set of positions, in increasing order.
NthOf(ps, k) == CHOOSE p \in ps : Cardinality({q \in ps : q <= p}) = k

\* First position >= i of s that does not hold a character of [0-9;].
SkipDigits(s, i) ==
    LET stops == {j \in i..Len(s) : s[j] \notin Digits}
    IN  IF i > Len(s) THEN i ELSE IF stops = {} THEN Len(s) + 1 ELSE MinOf(stops)

\* Length of the match of /\x1b\[[0-9;]*[a-zA-Z]/ at position i of s, 0 if none.
CsiMatchLen(s, i) ==
    IF i + 1 <= Len(s) /\ s[i] = ESC /\ s[i + 1] = "["
    THEN LET j == SkipDigits(s, i + 2)
         IN  IF j <= Len(s) /\ s[j] \in Letters THEN j + 1 - i ELSE 0
    ELSE 0

\* k steps of the left-to-right scan of rawData.replace(/\x1b\[[0-9;]*[a-zA-Z]/g, '')
\* from position i of s: a match is dropped, any other character is copied;
\* "out" is what was copied and "at" the position the scan has come to.
RECURSIVE StripCsiScan(_, _, _)
StripCsiScan(s, i, k) ==
    IF k = 0 \/ i > Len(s) THEN [out |-> <<>>, at |-> i]
    ELSE IF k = 1
    THEN LET n == CsiMatchLen(s, i)
         IN  IF n > 0 THEN [out |-> <<>>, at |-> i + n]
             ELSE [out |-> <<s[i]>>, at |-> i + 1]
    ELSE LET a == StripCsiScan(s, i, k \div 2)
             b == StripCsiScan(s, a.at, k - k \div 2)
         IN  [out |-> a.out \o b.out, at |-> b.at]

\* rawData.replace(/\x1b\[[0-9;]*[a-zA-Z]/g, '') from position i on: Len(s) steps reach the end of s.
StripCsiFrom(s, i) == StripCsiScan(s, i, Len(s)).out

\* .replace(/\r/g, '')
NotCR(c) == c # CR
StripCR(s) == SelectSeq(s, NotCR)

\* clean.split('\n'), cur being what was read of the first line before s: the
\* pieces between one line feed and the next, one more than there are line feeds.
SplitLF(s, cur) ==
    LET t == cur \o s
        lfs == {j \in Len(cur) + 1..Len(t) : t[j] = LF}
        n == Cardinality(lfs)
    IN  [k \in 1..n + 1 |->
            SubSeq(t, IF k = 1 THEN 1 ELSE NthOf(lfs, k - 1) + 1,
                      IF k = n + 1 THEN Len(t) ELSE NthOf(lfs, k) - 1)]

\* line.trim() is a non-empty string
NonBlank(line) == \E k \in 1..Len(line) : line[k] \notin Blank

\* for (const line of lines) if (line.trim()) buf.push(line)
KeepNonBlank(ls) == SelectSeq(ls, NonBlank)

\* Mutant of TrimToMax: "if" for "while", one line is shifted out at most.
TrimToMax_Once(buf) ==
    IF Len(buf) > RING_BUFFER_MAX_LINES THEN Tail(buf) ELSE buf

\* while (buf.length > RING_BUFFER_MAX_LINES) buf.shift()
RECURSIVE TrimToMax(_)
TrimToMax(buf) ==
    IF Len(buf) > RING_BUFFER_MAX_LINES THEN TrimToMax(Tail(buf)) ELSE buf

\* The lines appendToBuffer pushes for a chunk.
ChunkLines(rawData) == KeepNonBlank(SplitLF(StripCR(StripCsiFrom(rawData, 1)), <<>>))

\* appendToBuffer(id, rawData) as a function of the buffer map.
appendToBuffer(bufs, id, rawData) ==
    [bufs EXCEPT ![id] = Buf(TrimToMax(bufs[id].lines \o ChunkLines(rawData)))]

----------------------------------------------------------------------------
(* Text as the renderer's stream classifier reads it *)

WhiteSpace == Blank \cup {CR, LF}        \* \s
WordChars == Letters \cup DecDigits \cup {"_"}   \* \w
Glyphs == {"$", "U276F", "%", "U279C", "#"}      \* [$❯%➜#]

\* The position after the last character >= i of s that is in the set cs.
SkipIn(s, i, cs) ==
    LET stops == {j \in i..Len(s) : s[j] \notin cs}
    IN  IF i > Len(s) THEN i ELSE IF stops = {} THEN Len(s) + 1 ELSE MinOf(stops)

\* The position after the last character >= i of s that is not in the set cs.
SkipNotIn(s, i, cs) ==
    LET stops == {j \in i..Len(s) : s[j] \in cs}
    IN  IF i > Len(s) THEN i ELSE IF stops = {} THEN Len(s) + 1 ELSE MinOf(stops)

\* w occurs in s at position i.
MatchAt(s, i, w) ==
    /\ i >= 1 /\ i + Len(w) - 1 <= Len(s)
    /\ \A j \in 1..Len(w) : s[i + j - 1] = w[j]

\* Length of the match of ANSI_STRIP_RE at position i of s, 0 if none:
\*   \x1b\[\?]?[0-9;]*[a-zA-Z]                   (ESC [ ? then an optional ])
\* | \x1b\](?:[^\x07\x1b]*(?:\x07|\x1b\\))
\* | \x1b\][^\x07]*$
\* | \x1b\(B
AnsiStripMatchLen(s, i) ==
    IF i > Len(s) \/ s[i] # ESC THEN 0
    ELSE IF MatchAt(s, i + 1, <<"[", "?">>)
              /\ LET j == SkipIn(s, IF i + 3 <= Len(s) /\ s[i + 3] = "]"
                                    THEN i + 4 ELSE i + 3, Digits)
                 IN  j <= Len(s) /\ s[j] \in Letters
    THEN SkipIn(s, IF i + 3 <= Len(s) /\ s[i + 3] = "]" THEN i + 4 ELSE i + 3, Digits)
             + 1 - i
    ELSE IF MatchAt(s, i + 1, <<"]">>)
    THEN LET j == SkipNotIn(s, i + 2, {BEL, ESC})
         IN  IF j <= Len(s) /\ s[j] = BEL THEN j + 1 - i
             ELSE IF MatchAt(s, j, <<ESC, "\\">>) THEN j + 2 - i
             ELSE IF SkipNotIn(s, i + 2, {BEL}) > Len(s) THEN Len(s) + 1 - i
             ELSE 0
    ELSE IF MatchAt(s, i + 1, <<"(", "B">>) THEN 3
    ELSE 0

\* k steps of the left-to-right scan of data.replace(ANSI_STRIP_RE, '') from
\* position i of s.
RECURSIVE AnsiStripScan(_, _, _)
AnsiStripScan(s, i, k) ==
    IF k = 0 \/ i > Len(s) THEN [out |-> <<>>, at |-> i]
    ELSE IF k = 1
    THEN LET n == AnsiStripMatchLen(s, i)
         IN  IF n > 0 THEN [out |-> <<>>, at |-> i + n]
             ELSE [out |-> <<s[i]>>, at |-> i + 1]
    ELSE LET a == AnsiStripScan(s, i, k \div 2)
             b == AnsiStripScan(s, a.at, k - k \div 2)
         IN  [out |-> a.out \o b.out, at |-> b.at]

\* data.replace(ANSI_STRIP_RE, '') from position i on: Len(s) steps reach the end of s.
AnsiStripFrom(s, i) == AnsiStripScan(s, i, Len(s)).out

\* Length of the match of ANSI_RESIDUAL_RE at position i of s, 0 if none:
\*   \[[\?]?[0-9;]*[a-zA-Z]  |  \][0-9]+;[^\x07]*(?:\x07|$)
AnsiResidualMatchLen(s, i) ==
    IF i > Len(s) THEN 0
    ELSE IF s[i] = "["
    THEN LET j == SkipIn(s, IF i + 1 <= Len(s) /\ s[i + 1] = "?"
                            THEN i + 2 ELSE i + 1, Digits)
         IN  IF j <= Len(s) /\ s[j] \in Letters THEN j + 1 - i
             ELSE LET j0 == SkipIn(s, i + 1, Digits)
                  IN  IF j0 <= Len(s) /\ s[j0] \in Letters THEN j0 + 1 - i ELSE 0
    ELSE IF s[i] = "]"
    THEN LET j == SkipIn(s, i + 1, DecDigits)
         IN  IF j > i + 1 /\ j <= Len(s) /\ s[j] = ";"
             THEN LET e == SkipNotIn(s, j + 1, {BEL})
                  IN  IF e <= Len(s) THEN e + 1 - i ELSE Len(s) + 1 - i
             ELSE 0
    ELSE 0

\* k steps of the left-to-right scan of .replace(ANSI_RESIDUAL_RE, '') from
\* position i of s.
RECURSIVE AnsiResidualScan(_, _, _)
AnsiResidualScan(s, i, k) ==
    IF k = 0 \/ i > Len(s) THEN [out |-> <<>>, at |-> i]
    ELSE IF k = 1
    THEN LET n == AnsiResidualMatchLen(s, i)
         IN  IF n > 0 THEN [out |-> <<>>, at |-> i + n]
             ELSE [out |-> <<s[i]>>, at |-> i + 1]
    ELSE LET a == AnsiResidualScan(s, i, k \div 2)
             b == AnsiResidualScan(s, a.at, k - k \div 2)
         IN  [out |-> a.out \o b.out, at |-> b.at]

\* .replace(ANSI_RESIDUAL_RE, '') from position i on: Len(s) steps reach the end of s.
AnsiResidualFrom(s, i) == AnsiResidualScan(s, i, Len(s)).out

\* String.trim(): the white space before the first and after the last character
\* that is not white space goes.
TrimLeft(s) ==
    LET ink == {j \in 1..Len(s) : s[j] \notin WhiteSpace}
    IN  IF ink = {} THEN <<>> ELSE SubSeq(s, MinOf(ink), Len(s))

TrimRight(s) ==
    LET ink == {j \in 1..Len(s) : s[j] \notin WhiteSpace}
    IN  IF ink = {} THEN <<>> ELSE SubSeq(s, 1, MaxOf(ink))

Trim(s) == TrimRight(TrimLeft(s))

\* lines.map(l => l.trim())
MapTrim(ls) == [k \in 1..Len(ls) |-> Trim(ls[k])]

\* lines.filter(Boolean): the non-empty strings
NonEmpty(l) == l # <<>>
FilterBoolean(ls) == SelectSeq(ls, NonEmpty)

\* lines.filter(l => l.trim()): the lines are kept as they are
TrimsToText(l) == Trim(l) # <<>>
FilterTrim(ls) == SelectSeq(ls, TrimsToText)

\* \b at the gap before position i of s
WordBoundary(s, i) ==
    (i - 1 >= 1 /\ s[i - 1] \in WordChars) # (i <= Len(s) /\ s[i] \in WordChars)

ErrorWords ==
    { <<"e","r","r","o","r">>, <<"E","r","r","o","r">>, <<"E","R","R","O","R">>,
      <<"F","A","I","L","E","D">>, <<"f","a","i","l","e","d">>,
      <<"e","x","c","e","p","t","i","o","n">>, <<"E","x","c","e","p","t","i","o","n">> }

RedCodes == { <<"3","1">>, <<"9","1">>, <<"1",";","3","1">> }

\* ANSI_ERROR_RE.test(s):
\*   \x1b\[(?:31|91|1;31)m  |  \b(error|Error|ERROR|FAILED|failed|exception|Exception)\b
ANSI_ERROR_RE(s) ==
    \E i \in 1..Len(s) :
        \/ \E c \in RedCodes : MatchAt(s, i, <<ESC, "[">> \o c \o <<"m">>)
        \/ \E w \in ErrorWords :
              MatchAt(s, i, w) /\ WordBoundary(s, i) /\ WordBoundary(s, i + Len(w))

\* SHELL_PROMPT_RE.test(s):  [$❯%➜#]\s*$
SHELL_PROMPT_RE(s) ==
    \E i \in 1..Len(s) :
        s[i] \in Glyphs /\ \A j \in (i + 1)..Len(s) : s[j] \in WhiteSpace

\* The lower-case letter of each upper-case letter.
ToLowerCase ==
    ("A" :> "a") @@ ("B" :> "b") @@ ("C" :> "c") @@ ("D" :> "d") @@ ("E" :> "e") @@
    ("F" :> "f") @@ ("G" :> "g") @@ ("H" :> "h") @@ ("I" :> "i") @@ ("J" :> "j") @@
    ("K" :> "k") @@ ("L" :> "l") @@ ("M" :> "m") @@ ("N" :> "n") @@ ("O" :> "o") @@
    ("P" :> "p") @@ ("Q" :> "q") @@ ("R" :> "r") @@ ("S" :> "s") @@ ("T" :> "t") @@
    ("U" :> "u") @@ ("V" :> "v") @@ ("W" :> "w") @@ ("X" :> "x") @@ ("Y" :> "y") @@
    ("Z" :> "z")

\* The character a case-insensitive match compares.
Fold(c) == IF c \in Upper THEN ToLowerCase[c] ELSE c

FoldAll(s) == [k \in 1..Len(s) |-> Fold(s[k])]

\* The folded word w occurs in the folded s.
Contains(s, w) ==
    LET f == FoldAll(s)
    IN  \E i \in 1..(Len(s) - Len(w) + 1) : MatchAt(f, i, w)

\* The folded s has w1, then any characters but a line end, then w2.
WordThenWord(s, w1, w2) ==
    LET f == FoldAll(s)
    IN  \E i \in 1..Len(s) :
            /\ MatchAt(f, i, w1)
            /\ \E k \in (i + Len(w1))..Len(s) :
                  /\ MatchAt(f, k, w2)
                  /\ \A j \in (i + Len(w1))..(k - 1) : s[j] \notin {LF, CR}

\* INPUT_BLOCKED_RE.test(s), case-insensitive:
\*   \?\s*$ | \[y\/N\] | \[Y\/n\] | password: | Password: | passphrase:
\* | Enter.*: | Select.*: | Press.*continue | \(yes\/no\)
INPUT_BLOCKED_RE(s) ==
    \/ \E i \in 1..Len(s) : s[i] = "?" /\ \A j \in (i + 1)..Len(s) : s[j] \in WhiteSpace
    \/ Contains(s, <<"[","y","/","n","]">>)
    \/ Contains(s, <<"p","a","s","s","w","o","r","d",":">>)
    \/ Contains(s, <<"p","a","s","s","p","h","r","a","s","e",":">>)
    \/ WordThenWord(s, <<"e","n","t","e","r">>, <<":">>)
    \/ WordThenWord(s, <<"s","e","l","e","c","t">>, <<":">>)
    \/ WordThenWord(s, <<"p","r","e","s","s">>, <<"c","o","n","t","i","n","u","e">>)
    \/ Contains(s, <<"(","y","e","s","/","n","o",")">>)

\* AGENT_PATTERNS: case-insensitive alternatives with the label of each entry.
AGENT_PATTERNS ==
    << [label |-> "Searching", words |-> {<<"s","e","a","r","c","h","i","n","g">>, <<"g","r","e","p">>, <<"f","i","n","d">>, <<"l","o","o","k","i","n","g">>}],
       [label |-> "Thinking", words |-> {<<"t","h","i","n","k","i","n","g">>, <<"a","n","a","l","y","z","i","n","g">>, <<"p","l","a","n","n","i","n","g">>}],
       [label |-> "Writing", words |-> {<<"w","r","i","t","i","n","g">>, <<"c","r","e","a","t","i","n","g">>, <<"e","d","i","t","i","n","g">>, <<"m","o","d","i","f","y","i","n","g">>}],
       [label |-> "Installing", words |-> {<<"i","n","s","t","a","l","l","i","n","g">>, <<"n","p","m">>, <<"p","i","p">>, <<"a","p","t">>}],
       [label |-> "Testing", words |-> {<<"t","e","s","t","i","n","g">>, <<"t","e","s","t">>, <<"j","e","s","t">>, <<"v","i","t","e","s","t">>}],
       [label |-> "Building", words |-> {<<"b","u","i","l","d","i","n","g">>, <<"c","o","m","p","i","l","i","n","g">>, <<"w","e","b","p","a","c","k">>, <<"v","i","t","e">>, <<"t","s","c">>}],
       [label |-> "Deploying", words |-> {<<"d","e","p","l","o","y","i","n","g">>, <<"d","e","p","l","o","y">>, <<"p","u","s","h">>}] >>

----------------------------------------------------------------------------
(* The process supervisor *)

\* A pty object of procs: the session id it was spawned for, its pid, the state
\* of its OS process ("alive"; "dead": terminated, exit event not yet handled;
\* "exited": exit event handled), whether term.kill() was called on it, whether
\* pty:spawn got as far as installing its onData and onExit callbacks.
Term(id, pid) ==
    [id |-> id, pid |-> pid, st |-> "alive", killed |-> FALSE, wired |-> TRUE]

Running == appPhase \in {"ready", "quitting", "closed", "willExit"}

HasHandle(sh) == {i \in Ids : sh[i] # 0}

RECURSIVE CountTag(_, _)
CountTag(log, tag) ==
    IF log = <<>> THEN 0
    ELSE (IF Head(log)[1] = tag THEN 1 ELSE 0) + CountTag(Tail(log), tag)

\* ensureKaizenDir() throws when the directory is missing and mkdirSync fails.
ensureKaizenDirThrows == ~kaizenDirOk

\* Mutant of writePidLock: the file lists the live processes of the run rather
\* than the entries of shells.
writePidLock_LiveProcs(sh, ps) ==
    LockFile({<<ps[k].id, ps[k].pid>> : k \in {j \in 1..Len(ps) : ps[j].st = "alive"}})

\* writePidLock() past ensureKaizenDir(): the file lists every entry of shells
\* with its pid.
writePidLock(sh, ps) == LockFile({<<i, ps[sh[i]].pid>> : i \in HasHandle(sh)})

\* cleanPidLock(): unlink the file if it exists.
cleanPidLock == NoLock

LOG_ROTATE_LINES == 10000
LOG_KEEP_LINES == 5000

\* lines.slice(-n).join('\n') of content.split('\n'), for a file of complete
\* lines: the split ends with an empty string, which is one of the n kept.
LastLines(log, n) ==
    IF Len(log) + 1 <= n THEN log
    ELSE SubSeq(log, Len(log) - (n - 1) + 1, Len(log))

\* appendSessionLog(event): append the line, then rotate a log whose split has
\* more than LOG_ROTATE_LINES elements; a throw of ensureKaizenDir is swallowed.
appendSessionLog(log, event) ==
    LET appended == Append(log, event)
    IN  IF ensureKaizenDirThrows THEN log
        ELSE IF Len(appended) + 1 > LOG_ROTATE_LINES
        THEN LastLines(appended, LOG_KEEP_LINES)
        ELSE appended

\* Mutant of startBufferFlush: an interval is set at every call.
startBufferFlush_Unguarded(n) == n + 1

\* startBufferFlush(): an interval is set unless the handle holds one.
startBufferFlush(n) == IF n > 0 THEN n ELSE n + 1

\* The clearInterval of stopBufferFlush(): the interval of the handle is cleared.
stopBufferFlush(n) == IF n > 0 THEN n - 1 ELSE n

\* flushBuffersToDisk(): every buffer of the map is written to its file; a
\* throw of mkdirSync for the buffers directory is swallowed.
flushBuffersToDisk(files, bufs) ==
    IF ~kaizenDirOk THEN files
    ELSE [i \in Ids |-> IF bufs[i].exists THEN bufs[i] ELSE files[i]]

\* ipcMain.handle('pty:readOutput'): the buffer of id with its length, or the
\* empty result for an id without a buffer.
readOutput(bufs, id) ==
    IF ~bufs[id].exists
    THEN [lines |-> <<>>, count |-> 0]
    ELSE [lines |-> bufs[id].lines, count |-> Len(bufs[id].lines)]

\* term.kill() on every pty of a set of procs indices (SIGHUP; a dead pty ignores it).
KillAll(ps, ks) ==
    [k \in 1..Len(ps) |->
        IF k \in ks /\ ps[k].st = "alive"
        THEN [ps[k] EXCEPT !.st = "dead", !.killed = TRUE]
        ELSE IF k \in ks THEN [ps[k] EXCEPT !.killed = TRUE]
        ELSE ps[k]]

\* The pids the operating system can give a new process: a pid no earlier
\* process had, or the pid of a terminated orphan that a pending timer still
\* names (any other free pid is named nowhere and behaves like a fresh one).
FreshPidAfter(n) == Cardinality(OrphanPids) + n + 1
FreshPid == FreshPidAfter(Len(procs))
AlivePids == {procs[k].pid : k \in {j \in 1..Len(procs) : procs[j].st = "alive"}}
FreePids == ({FreshPid} \cup {p \in killTimers : ~orphans[p].alive}) \ AlivePids

\* A handler runs for the request at the head of the channel, if the request
\* came through the channel.
Dequeued(msg) ==
    toMain' = IF toMain # <<>> /\ Head(toMain) = msg THEN Tail(toMain) ELSE toMain

\* pty:spawn requests handled so far: every one made a pty or logged SPAWN_FAIL.
Spawns == spawnCalls

\* ipcMain.handle('pty:spawn'): pty.spawn (or getActiveTaskEnv) throws.
ptySpawnFail(id) ==
    /\ appPhase = "ready" /\ mainWindow
    /\ Spawns < MaxSpawns
    /\ sessionLog' = appendSessionLog(sessionLog, <<"SPAWN_FAIL", id>>)
    /\ spawnCalls' = spawnCalls + 1
    /\ Dequeued(<<"pty:spawn", id>>)
    /\ toRenderer' = Append(toRenderer, <<"spawn:error", id>>)
    /\ UNCHANGED <<rendVars, kaizenDirOk, appPhase, mainWindow, procs, shells, pidsFile, orphans,
                   killTimers, signals, uncaught, bufVars>>

\* ipcMain.handle('pty:spawn'): pty.spawn returns a pty with the given pid, but
\* ensureKaizenDir throws in writePidLock, after shells.set and before the
\* callbacks are installed; the catch block returns {error} (its log line is
\* lost to the same failure).
ptySpawnLockThrows(id, pid) ==
    /\ appPhase = "ready" /\ mainWindow
    /\ Spawns < MaxSpawns
    /\ pid \in FreePids
    /\ ensureKaizenDirThrows
    /\ procs' = Append(procs, [Term(id, pid) EXCEPT !.wired = FALSE])
    /\ shells' = [shells EXCEPT ![id] = Len(procs) + 1]
    /\ sessionLog' = appendSessionLog(sessionLog, <<"SPAWN_FAIL", id>>)
    /\ spawnCalls' = spawnCalls + 1
    /\ Dequeued(<<"pty:spawn", id>>)
    /\ toRenderer' = Append(toRenderer, <<"spawn:error", id>>)
    /\ UNCHANGED <<rendVars, kaizenDirOk, appPhase, mainWindow, pidsFile, orphans, killTimers,
                   signals, uncaught, bufVars>>

\* Mutant of ptySpawnOk: an id that has a handle keeps it, the new pty is not
\* registered.
ptySpawnOk_KeepFirst(id, pid) ==
    /\ appPhase = "ready" /\ mainWindow
    /\ Spawns < MaxSpawns
    /\ pid \in FreePids
    /\ ~ensureKaizenDirThrows
    /\ procs' = Append(procs, Term(id, pid))
    /\ shells' = IF shells[id] # 0 THEN shells
                 ELSE [shells EXCEPT ![id] = Len(procs) + 1]
    /\ pidsFile' = writePidLock(shells', procs')
    /\ bufferFlushInterval' = startBufferFlush(bufferFlushInterval)
    /\ sessionLog' = appendSessionLog(sessionLog, <<"SPAWN", id>>)
    /\ spawnCalls' = spawnCalls + 1
    /\ Dequeued(<<"pty:spawn", id>>)
    /\ toRenderer' = Append(toRenderer, <<"spawn:pid", id>>)
    /\ UNCHANGED <<rendVars, kaizenDirOk, appPhase, mainWindow, orphans, killTimers, signals,
                   uncaught, terminalBuffers, bufferFiles, arrival>>

\* ipcMain.handle('pty:spawn'): pty.spawn returns a pty with the given pid and
\* the handler runs to its return {pid}.
ptySpawnOk(id, pid) ==
    /\ appPhase = "ready" /\ mainWindow
    /\ Spawns < MaxSpawns
    /\ pid \in FreePids
    /\ ~ensureKaizenDirThrows
    /\ procs' = Append(procs, Term(id, pid))
    /\ shells' = [shells EXCEPT ![id] = Len(procs) + 1]
    /\ pidsFile' = writePidLock(shells', procs')
    /\ bufferFlushInterval' = startBufferFlush(bufferFlushInterval)
    /\ sessionLog' = appendSessionLog(sessionLog, <<"SPAWN", id>>)
    /\ spawnCalls' = spawnCalls + 1
    /\ Dequeued(<<"pty:spawn", id>>)
    /\ toRenderer' = Append(toRenderer, <<"spawn:pid", id>>)
    /\ UNCHANGED <<rendVars, kaizenDirOk, appPhase, mainWindow, orphans, killTimers, signals, uncaught,
                   terminalBuffers, bufferFiles, arrival>>

\* ipcMain.on('pty:write'): term.write on a pty whose process has died either
\* drops the bytes or throws, and nothing catches it here.
ptyWrite(id, throws) ==
    /\ appPhase = "ready" /\ mainWindow
    /\ IF shells[id] = 0
       THEN ~throws /\ UNCHANGED uncaught
       ELSE IF procs[shells[id]].st = "alive"
       THEN ~throws /\ UNCHANGED uncaught
       ELSE uncaught' = IF throws THEN uncaught \cup {"pty:write"} ELSE uncaught
    /\ Dequeued(<<"pty:write", id>>)
    /\ UNCHANGED toRenderer
    /\ UNCHANGED <<rendVars, spawnCalls, kaizenDirOk, appPhase, mainWindow, procs, shells, pidsFile, orphans,
                   killTimers, signals, sessionLog, bufVars>>

\* ipcMain.on('pty:resize'): term.resize throws on a pty whose process has died
\* (throws = TRUE); the handler catches it.
ptyResize(id, throws) ==
    /\ appPhase = "ready" /\ mainWindow
    /\ throws => shells[id] # 0 /\ procs[shells[id]].st # "alive"
    /\ Dequeued(<<"pty:resize", id>>)
    /\ UNCHANGED <<supVars, bufVars, toRenderer, rendVars>>

\* Mutant of ptyKill: the handler kills and forgets every pty of the map.
ptyKill_Everyone(id) ==
    /\ appPhase = "ready" /\ mainWindow
    /\ IF shells[id] = 0
       THEN UNCHANGED <<procs, shells, pidsFile, sessionLog, uncaught>>
       ELSE /\ procs' = KillAll(procs, {shells[i] : i \in Ids} \ {0})
            /\ shells' = [i \in Ids |-> 0]
            /\ pidsFile' = writePidLock(shells', procs')
            /\ sessionLog' = appendSessionLog(sessionLog, <<"KILL", id>>)
            /\ UNCHANGED uncaught
    /\ Dequeued(<<"pty:kill", id>>)
    /\ UNCHANGED toRenderer
    /\ UNCHANGED <<rendVars, spawnCalls, kaizenDirOk, appPhase, mainWindow, orphans, killTimers, signals,
                   bufVars>>

\* Mutant of ptyKill: the delete, the lock write and the log line are not
\* guarded by "if (term)".
ptyKill_Unguarded(id) ==
    /\ appPhase = "ready" /\ mainWindow
    /\ procs' = IF shells[id] = 0 THEN procs ELSE KillAll(procs, {shells[id]})
    /\ shells' = [shells EXCEPT ![id] = 0]
    /\ IF ensureKaizenDirThrows
       THEN /\ uncaught' = uncaught \cup {"pty:kill"}
            /\ UNCHANGED <<pidsFile, sessionLog>>
       ELSE /\ pidsFile' = writePidLock(shells', procs')
            /\ sessionLog' = appendSessionLog(sessionLog, <<"KILL", id>>)
            /\ UNCHANGED uncaught
    /\ Dequeued(<<"pty:kill", id>>)
    /\ UNCHANGED toRenderer
    /\ UNCHANGED <<rendVars, spawnCalls, kaizenDirOk, appPhase, mainWindow, orphans, killTimers, signals,
                   bufVars>>

\* ipcMain.on('pty:kill'): a throw of ensureKaizenDir in writePidLock leaves
\* the listener after shells.delete.
ptyKill(id) ==
    /\ appPhase = "ready" /\ mainWindow
    /\ IF shells[id] = 0
       THEN UNCHANGED <<procs, shells, pidsFile, sessionLog, uncaught>>
       ELSE /\ procs' = KillAll(procs, {shells[id]})
            /\ shells' = [shells EXCEPT ![id] = 0]
            /\ IF ensureKaizenDirThrows
               THEN /\ uncaught' = uncaught \cup {"pty:kill"}
                    /\ UNCHANGED <<pidsFile, sessionLog>>
               ELSE /\ pidsFile' = writePidLock(shells', procs')
                    /\ sessionLog' = appendSessionLog(sessionLog, <<"KILL", id>>)
                    /\ UNCHANGED uncaught
    /\ Dequeued(<<"pty:kill", id>>)
    /\ UNCHANGED toRenderer
    /\ UNCHANGED <<rendVars, spawnCalls, kaizenDirOk, appPhase, mainWindow, orphans, killTimers, signals,
                   bufVars>>

\* term.onData callback of pty k: the chunk goes to the ring buffer of the id
\* the pty was spawned for (and to the renderer, if the window exists).
termOnData(k, chunk) ==
    /\ Running
    /\ procs[k].wired
    /\ procs[k].st = "alive"
    /\ terminalBuffers' = appendToBuffer(terminalBuffers, procs[k].id, chunk)
    /\ arrival' = [arrival EXCEPT ![procs[k].id] = @ \o ChunkLines(chunk)]
    /\ UNCHANGED <<rendVars, chanVars, supVars, bufferFiles, bufferFlushInterval>>

\* The operating system: the process of pty k terminates on its own.
procDies(k) ==
    /\ Running
    /\ procs[k].st = "alive"
    /\ procs' = [procs EXCEPT ![k].st = "dead"]
    /\ UNCHANGED <<rendVars, chanVars, spawnCalls, kaizenDirOk, appPhase, mainWindow, shells, pidsFile, orphans, killTimers,
                   signals, sessionLog, uncaught, bufVars>>

\* The exit codes a process ends with: success and one failure.
ExitCodes == {0, 1}
FailureCodes == ExitCodes \ {0}

\* term.onExit callback of pty k with the exit code of its process: it deletes
\* the entry of the id the pty was spawned for, whichever pty that entry holds.
termOnExitCode(k, exitCode) ==
    /\ Running
    /\ procs[k].wired
    /\ procs[k].st = "dead"
    /\ procs' = [procs EXCEPT ![k].st = "exited"]
    /\ shells' = [shells EXCEPT ![procs[k].id] = 0]
    /\ IF ensureKaizenDirThrows
       THEN /\ uncaught' = uncaught \cup {"onExit"}
            /\ UNCHANGED <<pidsFile, sessionLog, bufferFiles, toRenderer>>
       ELSE /\ pidsFile' = writePidLock(shells', procs')
            /\ sessionLog' = appendSessionLog(sessionLog, <<"EXIT", procs[k].id>>)
            /\ bufferFiles' = flushBuffersToDisk(bufferFiles, terminalBuffers)
            /\ toRenderer' = IF mainWindow
                             THEN Append(toRenderer, <<"pty:exit", procs[k].id, exitCode>>)
                             ELSE toRenderer
            /\ UNCHANGED uncaught
    /\ UNCHANGED <<rendVars, toMain, spawnCalls, kaizenDirOk, appPhase, mainWindow, orphans, killTimers, signals,
                   terminalBuffers, bufferFlushInterval, arrival>>

\* The callback for a process that ended with code 0, and for one that failed.
termOnExit(k) == termOnExitCode(k, 0)
termOnExitFailed(k) == \E exitCode \in FailureCodes : termOnExitCode(k, exitCode)

\* The setInterval(flushBuffersToDisk, 2000) callback.
\* Mutant of flushTick: a failing write is not caught, and the exception of the
\* timer callback reaches the process.
flushTick_Propagates ==
    /\ Running
    /\ bufferFlushInterval > 0
    /\ bufferFiles' = flushBuffersToDisk(bufferFiles, terminalBuffers)
    /\ uncaught' = IF kaizenDirOk THEN uncaught ELSE uncaught \cup {"flush"}
    /\ UNCHANGED <<rendVars, chanVars, spawnCalls, kaizenDirOk, appPhase, mainWindow, procs, shells,
                   pidsFile, orphans, killTimers, signals, sessionLog,
                   terminalBuffers, bufferFlushInterval, arrival>>

flushTick ==
    /\ Running
    /\ bufferFlushInterval > 0
    /\ bufferFiles' = flushBuffersToDisk(bufferFiles, terminalBuffers)
    /\ UNCHANGED <<rendVars, chanVars, supVars, terminalBuffers, bufferFlushInterval, arrival>>

----------------------------------------------------------------------------
(* Orphan recovery and the application lifecycle *)

\* process.kill(pid, sig) by pid: what the signal does to an orphan.  SIGKILL
\* always terminates; SIGTERM terminates a process that does not ignore it.
SignalOrphan(o, sig) ==
    IF o.alive /\ (sig = "SIGKILL" \/ ~o.ignoresTerm)
    THEN [o EXCEPT !.alive = FALSE] ELSE o

\* cleanupOrphanedProcesses(): probe every pid of the lock, SIGTERM the live
\* ones and arm their SIGKILL timers, then unlink the lock.
LockPids == {e[2] : e \in pidsFile.entries}

\* Mutant of LiveLockPids: every listed pid is signalled, the probe is skipped.
LiveLockPids_NoProbe == LockPids

\* The listed pids for which process.kill(pid, 0) does not throw.
LiveLockPids == {p \in LockPids : orphans[p].alive}

RECURSIVE SigtermAll(_, _)
SigtermAll(sigs, ps) ==
    IF ps = {} THEN sigs
    ELSE LET p == CHOOSE q \in ps : \A r \in ps : q <= r
         IN  SigtermAll(Append(sigs, <<p, "SIGTERM">>), ps \ {p})

cleanupOrphanedProcesses ==
    IF ~pidsFile.exists
    THEN UNCHANGED <<pidsFile, orphans, killTimers, signals>>
    ELSE /\ orphans' = [p \in OrphanPids |->
                           IF p \in LiveLockPids
                           THEN SignalOrphan(orphans[p], "SIGTERM")
                           ELSE orphans[p]]
         /\ signals' = SigtermAll(signals, LiveLockPids)
         /\ killTimers' = LiveLockPids
         /\ pidsFile' = NoLock

\* Mutant of whenReady: the window is created without orphan recovery.
whenReady_WindowOnly ==
    /\ appPhase = "boot"
    /\ mainWindow' = TRUE
    /\ appPhase' = "ready"
    /\ UNCHANGED <<rendVars, chanVars, spawnCalls, kaizenDirOk, procs, shells, pidsFile, orphans, killTimers,
                   signals, sessionLog, uncaught, bufVars>>

\* app.whenReady().then(...): orphan recovery, then the window is created; the
\* renderer it loads is what sends the pty:* requests.
whenReady ==
    /\ appPhase = "boot"
    /\ cleanupOrphanedProcesses
    /\ mainWindow' = TRUE
    /\ appPhase' = "ready"
    /\ UNCHANGED <<rendVars, chanVars, spawnCalls, kaizenDirOk, procs, shells, sessionLog, uncaught, bufVars>>

\* The setTimeout callback of cleanupOrphanedProcesses for one lock entry:
\* process.kill(pid, 'SIGKILL') reaches whichever live process has that pid now.
orphanKillTimer(p) ==
    /\ Running
    /\ p \in killTimers
    /\ killTimers' = killTimers \ {p}
    /\ LET hit == {k \in 1..Len(procs) : procs[k].pid = p /\ procs[k].st = "alive"}
       IN  /\ orphans' = [orphans EXCEPT ![p] = SignalOrphan(@, "SIGKILL")]
           /\ procs' = [k \in 1..Len(procs) |->
                           IF k \in hit THEN [procs[k] EXCEPT !.st = "dead"]
                           ELSE procs[k]]
           /\ signals' = IF orphans[p].alive \/ hit # {}
                         THEN Append(signals, <<p, "SIGKILL">>) ELSE signals
    /\ UNCHANGED <<rendVars, chanVars, spawnCalls, kaizenDirOk, appPhase, mainWindow, shells, pidsFile, sessionLog, uncaught,
                   bufVars>>

\* The handles shells holds, as procs indices.
Handles == {shells[i] : i \in HasHandle(shells)}

\* Mutant of beforeQuitBody: the interval is cleared without the final flush.
beforeQuitBody_NoFlush ==
    /\ sessionLog' = appendSessionLog(sessionLog, <<"APP_QUIT", "app">>)
    /\ procs' = KillAll(procs, Handles)
    /\ shells' = [i \in Ids |-> 0]
    /\ pidsFile' = cleanPidLock
    /\ bufferFlushInterval' = stopBufferFlush(bufferFlushInterval)
    /\ bufferFiles' = bufferFiles

\* app.on('before-quit') body
beforeQuitBody ==
    /\ sessionLog' = appendSessionLog(sessionLog, <<"APP_QUIT", "app">>)
    /\ procs' = KillAll(procs, Handles)
    /\ shells' = [i \in Ids |-> 0]
    /\ pidsFile' = cleanPidLock
    /\ bufferFlushInterval' = stopBufferFlush(bufferFlushInterval)
    /\ bufferFiles' = flushBuffersToDisk(bufferFiles, terminalBuffers)

\* The user quits the application (menu, Cmd+Q): before-quit runs first, the
\* window is closed afterwards.
beforeQuit ==
    /\ appPhase = "ready"
    /\ beforeQuitBody
    /\ appPhase' = "quitting"
    /\ UNCHANGED <<rendVars, chanVars, spawnCalls, kaizenDirOk, mainWindow, orphans, killTimers, signals, uncaught,
                   terminalBuffers, arrival>>

\* mainWindow.on('closed')
windowClosed ==
    /\ appPhase \in {"ready", "quitting"}
    /\ mainWindow
    /\ mainWindow' = FALSE
    /\ procs' = KillAll(procs, Handles)
    /\ shells' = [i \in Ids |-> 0]
    /\ appPhase' = IF appPhase = "ready" THEN "closed" ELSE "willExit"
    /\ UNCHANGED <<rendVars, chanVars, spawnCalls, kaizenDirOk, pidsFile, orphans, killTimers, signals,
                   sessionLog, uncaught, bufVars>>

\* app.on('window-all-closed') after the user closed the window: it kills and
\* clears shells, unlinks the lock and calls app.quit(), which emits before-quit
\* (the same kill, clear and unlink again, plus the log line and the last flush).
\* Electron does not emit window-all-closed when the application is quitting.
windowAllClosed ==
    /\ appPhase = "closed"
    /\ beforeQuitBody
    /\ appPhase' = "willExit"
    /\ UNCHANGED <<rendVars, chanVars, spawnCalls, kaizenDirOk, mainWindow, orphans, killTimers, signals, uncaught,
                   terminalBuffers, arrival>>

\* The main process ends: pending timers and callbacks are gone.
processExit ==
    /\ appPhase = "willExit"
    /\ appPhase' = "exited"
    /\ UNCHANGED <<rendVars, chanVars, spawnCalls, kaizenDirOk, mainWindow, procs, shells, pidsFile, orphans, killTimers,
                   signals, sessionLog, uncaught, bufVars>>

----------------------------------------------------------------------------
(* The renderer: TerminalManager and the callbacks main.ts gives it *)

\* A TerminalInstance with its panel: the header classes has-errors,
\* has-activity and is-blocked, the status badge, the restart button, and the
\* dead-shell overlay and the block tracking fields.
NoBlock == [open |-> FALSE, command |-> <<>>, output |-> <<>>, hasError |-> FALSE]

Inst ==
    [exists |-> TRUE, active |-> FALSE, hasErrors |-> FALSE, hasActivity |-> FALSE,
     isBlocked |-> FALSE, badge |-> "none", restartBtn |-> FALSE,
     deadOverlay |-> FALSE, pending |-> <<>>,
     blocks |-> <<>>, currentBlock |-> NoBlock, lineBuffer |-> <<>>]

NoInst == [Inst EXCEPT !.exists = FALSE]

\* No Kanban task: the agent of the session was added without a task context.
NoTask == [linked |-> FALSE, status |-> "backlog", agentId |-> FALSE]

\* The Kanban task an agent is spawned for: agent.taskId is its id (linked), it
\* is in a column, and its own field agentId is the id of the agent or not
\* (the renderer never assigns it; the tasks file or the MCP server may).
KanbanTask(column, agentId) == [linked |-> TRUE, status |-> column, agentId |-> agentId]
TaskColumns == {"backlog", "doing"}

\* updateAgentBadge(inst, text): the ready badge at a shell prompt, else the
\* label of the first pattern that matches, else the badge as it was.
updateAgentBadge(badge, text) ==
    IF SHELL_PROMPT_RE(text) THEN "ready"
    ELSE LET hits == {k \in 1..Len(AGENT_PATTERNS) :
                         \E w \in AGENT_PATTERNS[k].words : Contains(text, w)}
         IN  IF hits = {} THEN badge
             ELSE AGENT_PATTERNS[CHOOSE k \in hits : \A j \in hits : k <= j].label

\* The cleaned text of updatePanelActivity and its trimmed non-empty lines.
CleanText(rawData) ==
    Trim(StripCR(AnsiResidualFrom(AnsiStripFrom(rawData, 1), 1)))

CleanLines(rawData) == FilterBoolean(MapTrim(SplitLF(CleanText(rawData), <<>>)))

\* lastLine, the empty string standing for undefined (both are falsy)
LastLineOf(rawData) ==
    LET lines == CleanLines(rawData)
    IN  IF lines = <<>> THEN <<>> ELSE lines[Len(lines)]

\* updatePanelActivity(id, rawData) on the instance of id
updatePanelActivity(inst, isActive, rawData) ==
    LET lastLine == LastLineOf(rawData)
    IN  [inst EXCEPT
            !.hasErrors = @ \/ ANSI_ERROR_RE(rawData),
            !.hasActivity = @ \/ ~isActive,
            !.isBlocked = @ \/ (lastLine # <<>> /\ INPUT_BLOCKED_RE(lastLine) /\ ~isActive),
            !.badge = updateAgentBadge(@, IF lastLine # <<>> THEN lastLine
                                          ELSE CleanText(rawData))]

\* The CustomEvents updatePanelActivity(id, rawData) dispatches.
PanelEvents(id, isActive, rawData) ==
    (IF ANSI_ERROR_RE(rawData) THEN {<<"kaizen-terminal-error", id>>} ELSE {})
    \cup (IF LastLineOf(rawData) # <<>> /\ INPUT_BLOCKED_RE(LastLineOf(rawData)) /\ ~isActive
          THEN {<<"kaizen-terminal-blocked", id>>} ELSE {})

BlockHistoryMax == 50        \* if (inst.blocks.length > 50) inst.blocks.shift()
MinBufferLength == 10        \* inst.lineBuffer.length > 10

NewBlock == [NoBlock EXCEPT !.open = TRUE]

\* Mutant of trackBlocks: a prompt closes the block whatever the length of the
\* line buffer.
trackBlocks_AnyLength(inst, data) ==
    LET clean == StripCR(AnsiStripFrom(data, 1))
        lineBuffer == inst.lineBuffer \o clean
        lines == SplitLF(lineBuffer, <<>>)
        lastLine == Trim(lines[Len(lines)])
        cur == inst.currentBlock
        outputLines == FilterTrim(SplitLF(clean, <<>>))
    IN  IF SHELL_PROMPT_RE(lastLine)
        THEN [inst EXCEPT
                !.blocks = IF cur.open /\ (cur.command # <<>> \/ cur.output # <<>>)
                           THEN IF Len(@) + 1 > BlockHistoryMax
                                THEN Tail(Append(@, cur)) ELSE Append(@, cur)
                           ELSE @,
                !.currentBlock = NewBlock,
                !.lineBuffer = <<>>]
        ELSE IF cur.open
        THEN [inst EXCEPT
                !.lineBuffer = lineBuffer,
                !.currentBlock =
                    [cur EXCEPT
                        !.command = IF cur.command = <<>> /\ outputLines # <<>>
                                    THEN Trim(outputLines[1]) ELSE @,
                        !.output = IF cur.command = <<>> /\ outputLines # <<>>
                                   THEN @ \o Tail(outputLines) ELSE @ \o outputLines,
                        !.hasError = @ \/ ANSI_ERROR_RE(data)]]
        ELSE [inst EXCEPT !.lineBuffer = lineBuffer]

\* Mutant of trackBlocks: the open block is committed at a boundary whether or
\* not it has a command or output.
trackBlocks_CommitsEmpty(inst, data) ==
    LET clean == StripCR(AnsiStripFrom(data, 1))
        lineBuffer == inst.lineBuffer \o clean
        lines == SplitLF(lineBuffer, <<>>)
        cur == inst.currentBlock
        outputLines == FilterTrim(SplitLF(clean, <<>>))
    IN  IF SHELL_PROMPT_RE(Trim(lines[Len(lines)])) /\ Len(lineBuffer) > MinBufferLength
        THEN [inst EXCEPT
                !.blocks = IF cur.open
                           THEN IF Len(@) + 1 > BlockHistoryMax
                                THEN Tail(Append(@, cur)) ELSE Append(@, cur)
                           ELSE @,
                !.currentBlock = NewBlock,
                !.lineBuffer = <<>>]
        ELSE IF cur.open
        THEN [inst EXCEPT
                !.lineBuffer = lineBuffer,
                !.currentBlock =
                    [cur EXCEPT
                        !.command = IF cur.command = <<>> /\ outputLines # <<>>
                                    THEN Trim(outputLines[1]) ELSE @,
                        !.output = IF cur.command = <<>> /\ outputLines # <<>>
                                   THEN @ \o Tail(outputLines) ELSE @ \o outputLines,
                        !.hasError = @ \/ ANSI_ERROR_RE(data)]]
        ELSE [inst EXCEPT !.lineBuffer = lineBuffer]

\* Mutant of trackBlocks: at the cap the block just committed is the one that
\* is dropped.
trackBlocks_DropsNewest(inst, data) ==
    LET clean == StripCR(AnsiStripFrom(data, 1))
        lineBuffer == inst.lineBuffer \o clean
        lines == SplitLF(lineBuffer, <<>>)
        cur == inst.currentBlock
        outputLines == FilterTrim(SplitLF(clean, <<>>))
    IN  IF SHELL_PROMPT_RE(Trim(lines[Len(lines)])) /\ Len(lineBuffer) > MinBufferLength
        THEN [inst EXCEPT
                !.blocks = IF cur.open /\ (cur.command # <<>> \/ cur.output # <<>>)
                           THEN IF Len(@) + 1 > BlockHistoryMax
                                THEN @ ELSE Append(@, cur)
                           ELSE @,
                !.currentBlock = NewBlock,
                !.lineBuffer = <<>>]
        ELSE IF cur.open
        THEN [inst EXCEPT
                !.lineBuffer = lineBuffer,
                !.currentBlock =
                    [cur EXCEPT
                        !.command = IF cur.command = <<>> /\ outputLines # <<>>
                                    THEN Trim(outputLines[1]) ELSE @,
                        !.output = IF cur.command = <<>> /\ outputLines # <<>>
                                   THEN @ \o Tail(outputLines) ELSE @ \o outputLines,
                        !.hasError = @ \/ ANSI_ERROR_RE(data)]]
        ELSE [inst EXCEPT !.lineBuffer = lineBuffer]

\* trackBlocks(inst, data)
trackBlocks(inst, data) ==
    LET clean == StripCR(AnsiStripFrom(data, 1))
        lineBuffer == inst.lineBuffer \o clean
        lines == SplitLF(lineBuffer, <<>>)
        lastLine == Trim(lines[Len(lines)])
        cur == inst.currentBlock
        outputLines == FilterTrim(SplitLF(clean, <<>>))
    IN  IF SHELL_PROMPT_RE(lastLine) /\ Len(lineBuffer) > MinBufferLength
        THEN [inst EXCEPT
                !.blocks = IF cur.open /\ (cur.command # <<>> \/ cur.output # <<>>)
                           THEN IF Len(@) + 1 > BlockHistoryMax
                                THEN Tail(Append(@, cur)) ELSE Append(@, cur)
                           ELSE @,
                !.currentBlock = NewBlock,
                !.lineBuffer = <<>>]
        ELSE IF cur.open
        THEN [inst EXCEPT
                !.lineBuffer = lineBuffer,
                !.currentBlock =
                    [cur EXCEPT
                        !.command = IF cur.command = <<>> /\ outputLines # <<>>
                                    THEN Trim(outputLines[1]) ELSE @,
                        !.output = IF cur.command = <<>> /\ outputLines # <<>>
                                   THEN @ \o Tail(outputLines) ELSE @ \o outputLines,
                        !.hasError = @ \/ ANSI_ERROR_RE(data)]]
        ELSE [inst EXCEPT !.lineBuffer = lineBuffer]

\* state.agents holds an agent for the id.  Agent ids are generated fresh, so
\* the id of a removed agent ("removed") is not given to a new one.
AgentExists(id) == agentStatus[id] \notin {"none", "removed"}

\* The task part of the status callback of main.ts, for an agent that is in
\* state.agents: working moves its task to doing, done moves it to review.
syncTask(ts, id, status) ==
    IF ~ts[id].linked THEN ts
    ELSE IF status = "working" THEN [ts EXCEPT ![id].status = "doing"]
    ELSE IF status = "done" THEN [ts EXCEPT ![id].status = "review"]
    ELSE ts

\* The kaizen-agent-exit listener of main.ts: on exit code 0 the card whose
\* agentId is the id of the agent, and which is not done, becomes done.
agentExitListener(ts, id, exitCode) ==
    IF exitCode = 0 /\ ts[id].linked /\ ts[id].agentId /\ ts[id].status # "done"
    THEN [ts EXCEPT ![id].status = "done"]
    ELSE ts

\* The status callback of main.ts: agent.status = status if the agent is found.
onStatusChange(st, id, status) ==
    IF st[id] \in {"none", "removed"} THEN st ELSE [st EXCEPT ![id] = status]

\* Mutant of ClearFlags: the flags of every registered instance are removed.
ClearFlags_All(ts, id) ==
    [i \in Ids |-> IF ts[i].exists
                   THEN [ts[i] EXCEPT !.hasErrors = FALSE, !.hasActivity = FALSE,
                                      !.isBlocked = FALSE]
                   ELSE ts[i]]

\* setActive(id) on the instance map: the instance of id, if there is one, loses
\* has-errors, has-activity and is-blocked.
ClearFlags(ts, id) ==
    [ts EXCEPT ![id] = IF @.exists
                       THEN [@ EXCEPT !.hasErrors = FALSE, !.hasActivity = FALSE,
                                      !.isBlocked = FALSE]
                       ELSE @]

\* Mutant of Activate: the class active is added to the panel of id and the
\* panels of the other instances are left as they are.
Activate_KeepsOthers(ts, id) ==
    [i \in Ids |-> IF ts[i].exists /\ i = id
                   THEN [ClearFlags(ts, id)[i] EXCEPT !.active = TRUE]
                   ELSE ts[i]]

\* The forEach of setActive(id) on the instance map: every registered instance
\* has the class active toggled to (inst.id = id), and the instance of id loses
\* its flags.
Activate(ts, id) ==
    [i \in Ids |-> IF ts[i].exists
                   THEN [ClearFlags(ts, id)[i] EXCEPT !.active = (i = id)]
                   ELSE ts[i]]

\* getActiveId()
getActiveId == activeId

\* spawnAgentWithCwd / restoreAgents and createTerminal(agent): the agent joins
\* state.agents with status idle, the instance is registered and made active,
\* and the spawn is left to the next animation frame.
spawnAgentWithCwd(id, task) ==
    /\ appPhase = "ready" /\ mainWindow
    /\ agentStatus[id] = "none"
    /\ agentStatus' = [agentStatus EXCEPT ![id] = "idle"]
    /\ tasks' = [tasks EXCEPT ![id] = task]
    /\ terminals' = Activate([terminals EXCEPT ![id] = Inst], id)
    /\ activeId' = id
    /\ rafPending' = rafPending \cup {id}
    /\ dispatched' = {}
    /\ UNCHANGED <<stream, supVars, nlVars, kanbanVars, bufVars, chanVars>>

\* An agent added without a task context.
createTerminal(id) == spawnAgentWithCwd(id, NoTask)

\* addAgentForTask(task): an agent spawned for the Kanban task.
addAgentForTask(id, column, agentId) == spawnAgentWithCwd(id, KanbanTask(column, agentId))

\* A spawnTerminal call made for the instance of id: its .then is pending.
Awaiting(ts, id, origin) ==
    [ts EXCEPT ![id] = IF @.exists THEN [@ EXCEPT !.pending = Append(@, origin)] ELSE @]

\* The requestAnimationFrame callback of createTerminal: bridge.spawnTerminal.
rafSpawn(id) ==
    /\ appPhase = "ready" /\ mainWindow
    /\ id \in rafPending
    /\ rafPending' = rafPending \ {id}
    /\ toMain' = Append(toMain, <<"pty:spawn", id>>)
    /\ terminals' = Awaiting(terminals, id, "create")
    /\ dispatched' = {}
    /\ UNCHANGED <<tasks, stream, supVars, nlVars, kanbanVars, bufVars, toRenderer, activeId, agentStatus>>

\* The .then of a spawnTerminal call, for the reply at the head of the
\* channel; the replies of one session arrive in the order of its calls (the
\* callback holds the instance whether or not it is still registered).
\*   createTerminal:       status idle, or status error and the dead-shell overlay;
\*   showRestartButton:    status idle, or only an error line in the terminal;
\*   showDeadShellOverlay: status idle, or the overlay again.
spawnReply(id) ==
    /\ appPhase = "ready" /\ mainWindow
    /\ toRenderer # <<>>
    /\ Head(toRenderer) \in {<<"spawn:pid", id>>, <<"spawn:error", id>>}
    /\ toRenderer' = Tail(toRenderer)
    /\ LET origin == IF terminals[id].exists /\ terminals[id].pending # <<>>
                     THEN Head(terminals[id].pending) ELSE "create"
           settled == [terminals EXCEPT ![id] =
                          IF @.exists /\ @.pending # <<>>
                          THEN [@ EXCEPT !.pending = Tail(@)] ELSE @]
       IN  IF Head(toRenderer)[1] = "spawn:pid"
           THEN /\ agentStatus' = onStatusChange(agentStatus, id, "idle")
                /\ terminals' = settled
           ELSE /\ agentStatus' = IF origin = "create"
                                  THEN onStatusChange(agentStatus, id, "error")
                                  ELSE agentStatus
                /\ terminals' = [settled EXCEPT ![id] =
                                    IF @.exists /\ origin \in {"create", "reconnect"}
                                    THEN [@ EXCEPT !.deadOverlay = TRUE] ELSE @]
    /\ dispatched' = {}
    /\ UNCHANGED <<tasks, stream, supVars, nlVars, kanbanVars, bufVars, toMain, activeId, rafPending>>

\* Mutant of onTerminalExit: the exit evicts the session from the registry.
onTerminalExit_Evicts(id) ==
    /\ appPhase = "ready" /\ mainWindow
    /\ toRenderer # <<>>
    /\ Len(Head(toRenderer)) = 3
    /\ Head(toRenderer)[1] = "pty:exit" /\ Head(toRenderer)[2] = id
    /\ toRenderer' = Tail(toRenderer)
    /\ terminals' = [terminals EXCEPT ![id] = NoInst]
    /\ agentStatus' = onStatusChange(agentStatus, id, "done")
    /\ dispatched' = {}
    /\ UNCHANGED <<tasks, stream, supVars, nlVars, kanbanVars, bufVars, toMain, activeId, rafPending>>

\* The onTerminalExit callback of initIPC, for the pty:exit at the head of the
\* channel: nothing for an id that is not registered; otherwise status done,
\* the restart button and the kaizen-agent-exit event.
onTerminalExit(id) ==
    /\ appPhase = "ready" /\ mainWindow
    /\ toRenderer # <<>>
    /\ Len(Head(toRenderer)) = 3
    /\ Head(toRenderer)[1] = "pty:exit" /\ Head(toRenderer)[2] = id
    /\ toRenderer' = Tail(toRenderer)
    /\ LET exitCode == Head(toRenderer)[3]
       IN  IF terminals[id].exists
           THEN /\ agentStatus' = onStatusChange(agentStatus, id, "done")
                /\ terminals' = [terminals EXCEPT ![id].restartBtn = TRUE]
                /\ dispatched' = {<<"kaizen-agent-exit", id, exitCode>>}
                /\ tasks' = agentExitListener(
                                IF AgentExists(id) THEN syncTask(tasks, id, "done") ELSE tasks,
                                id, exitCode)
           ELSE /\ UNCHANGED <<agentStatus, terminals, tasks>>
                /\ dispatched' = {}
    /\ UNCHANGED <<stream, supVars, nlVars, kanbanVars, bufVars, toMain, activeId, rafPending>>

\* The click listener of the restart button: the button is removed and the
\* process is spawned again.
clickRestart(id) ==
    /\ appPhase = "ready" /\ mainWindow
    /\ terminals[id].exists /\ terminals[id].restartBtn
    /\ terminals' = Awaiting([terminals EXCEPT ![id].restartBtn = FALSE], id, "restart")
    /\ toMain' = Append(toMain, <<"pty:spawn", id>>)
    /\ dispatched' = {}
    /\ UNCHANGED <<tasks, stream, supVars, nlVars, kanbanVars, bufVars, toRenderer, activeId, agentStatus, rafPending>>

\* The click listener of the reconnect button: the overlay is removed and the
\* process is spawned again.
clickReconnect(id) ==
    /\ appPhase = "ready" /\ mainWindow
    /\ terminals[id].exists /\ terminals[id].deadOverlay
    /\ terminals' = Awaiting([terminals EXCEPT ![id].deadOverlay = FALSE], id, "reconnect")
    /\ toMain' = Append(toMain, <<"pty:spawn", id>>)
    /\ dispatched' = {}
    /\ UNCHANGED <<tasks, stream, supVars, nlVars, kanbanVars, bufVars, toRenderer, activeId, agentStatus, rafPending>>

\* The keys of terminals that remain when id is deleted.
Remaining(id) == {j \in Ids \ {id} : terminals[j].exists}

\* removeTerminal(id): pty:kill is sent, the instance is deleted, another
\* instance becomes active if the removed one was and one remains, and the
\* kaizen-agent-removed listener of main.ts drops the agent from state.agents.
removeTerminal(id) ==
    /\ appPhase = "ready" /\ mainWindow
    /\ terminals[id].exists
    /\ toMain' = Append(toMain, <<"pty:kill", id>>)
    /\ IF activeId = id /\ Remaining(id) # {}
       THEN \E j \in Remaining(id) :
               /\ activeId' = j
               /\ terminals' = Activate([terminals EXCEPT ![id] = NoInst], j)
       ELSE /\ terminals' = [terminals EXCEPT ![id] = NoInst]
            /\ UNCHANGED activeId
    /\ agentStatus' = [agentStatus EXCEPT ![id] = "removed"]
    /\ dispatched' = {<<"kaizen-agent-removed", id>>}
    /\ UNCHANGED <<tasks, stream, supVars, nlVars, kanbanVars, bufVars, toRenderer, rafPending>>

\* setActive(id), from a click on the panel or a focus of its terminal.
setActive(id) ==
    /\ appPhase = "ready" /\ mainWindow
    /\ terminals[id].exists
    /\ activeId' = id
    /\ terminals' = Activate(terminals, id)
    /\ dispatched' = {}
    /\ UNCHANGED <<tasks, stream, supVars, nlVars, kanbanVars, bufVars, chanVars, agentStatus, rafPending>>

\* destroy(): pty:kill is sent for every instance, in the order of the map, and
\* the map is cleared; activeId and state.agents are not touched.
destroy ==
    /\ appPhase = "ready" /\ mainWindow
    /\ \E i \in Ids : terminals[i].exists
    /\ \E order \in [1..Cardinality({i \in Ids : terminals[i].exists})
                        -> {i \in Ids : terminals[i].exists}] :
          /\ \A a, b \in DOMAIN order : a # b => order[a] # order[b]
          /\ toMain' = toMain \o [k \in DOMAIN order |-> <<"pty:kill", order[k]>>]
    /\ terminals' = [i \in Ids |-> NoInst]
    /\ dispatched' = {}
    /\ UNCHANGED <<supVars, nlVars, kanbanVars, bufVars, toRenderer, activeId, agentStatus, rafPending, stream, tasks>>

----------------------------------------------------------------------------
(* The shared tasks file: the Kanban board of the renderer, the tasks:*     *)
(* handlers of the main process with the file watcher, and the task tools   *)
(* of the MCP server, which is a process of its own.  Each handler is       *)
(* synchronous in its process, but nothing orders the readFileSync and the  *)
(* writeFileSync of one process against those of the other, so the handlers *)
(* that write the file are two steps: loadTasks(), then saveTasks().        *)

MaxTasks == 2                \* task ids generateId() and genId() hand out in a run
MaxTaskUpdates == 1          \* tasks:update requests of the board in a run
MaxCalls == 1                \* invocations that wait for the main process
MaxUpdates == 1              \* tasks:updated messages that wait for the renderer

TaskIds == 1..MaxTasks
Statuses == {"backlog", "doing"}
NoTasks == [t \in TaskIds |-> "none"]
NoOp == [op |-> "none", id |-> 0, st |-> "none", read |-> NoTasks]

\* mapStatus of kanban.ts
mapStatus(status) ==
    CASE status = "backlog" -> "backlog"
      [] status = "doing" -> "doing"
      [] status = "in progress" -> "doing"
      [] status = "review" -> "review"
      [] status = "in review" -> "review"
      [] status = "done" -> "done"
      [] OTHER -> "backlog"

normalizeFileTasks(fileTasks) ==
    [t \in TaskIds |-> IF fileTasks[t] = "none" THEN "none" ELSE mapStatus(fileTasks[t])]

\* tasks.map(t => t.id).sort().join(',') as the set it stands for
TaskIdsOf(ts) == {t \in TaskIds : ts[t] # "none"}

\* What a handler makes of the array it has loaded: push, Object.assign on the
\* task found, or filter.
ApplyOp(o, ts) ==
    CASE o.op = "add" -> [ts EXCEPT ![o.id] = o.st]
      [] o.op = "update" -> IF ts[o.id] = "none" THEN ts ELSE [ts EXCEPT ![o.id] = o.st]
      [] o.op = "delete" -> [ts EXCEPT ![o.id] = "none"]
      [] OTHER -> ts

\* The file holds one task, which loadFromFile() has put on the board.
InitKanban ==
    /\ tasksFile = [t \in TaskIds |-> IF t = 1 THEN "backlog" ELSE "none"]
    /\ kanbanTasks = normalizeFileTasks(tasksFile)
    /\ pendingWrite = FALSE
    /\ debounceTimer = FALSE
    /\ tasksUpdated = <<>>
    /\ taskCalls = <<>>
    /\ appOp = NoOp
    /\ mcpOp = NoOp
    /\ nextTaskId = 2
    /\ lastWrite = "none"

TaskUpdatesLogged == Cardinality({k \in 1..Len(sessionLog) : sessionLog[k][1] = "TASK_UPDATE"})
TaskUpdatesQueued == Cardinality({k \in 1..Len(taskCalls) : taskCalls[k].op = "update"})

\* KanbanBoard.addTask(title, status)
addTask(st) ==
    /\ appPhase = "ready" /\ mainWindow
    /\ nextTaskId <= MaxTasks
    /\ Len(taskCalls) < MaxCalls
    /\ kanbanTasks' = [kanbanTasks EXCEPT ![nextTaskId] = st]
    /\ nextTaskId' = nextTaskId + 1
    /\ pendingWrite' = TRUE
    /\ taskCalls' = Append(taskCalls, [op |-> "add", id |-> nextTaskId, st |-> st])
    /\ dispatched' = {}
    /\ UNCHANGED <<tasksFile, debounceTimer, tasksUpdated, appOp, mcpOp, lastWrite>>
    /\ UNCHANGED <<terminals, activeId, agentStatus, rafPending, stream, tasks, nlVars,
                   supVars, bufVars, chanVars>>

\* KanbanBoard.moveTask(id, newStatus) for a task of the board
moveTask(id, newStatus) ==
    /\ appPhase = "ready" /\ mainWindow
    /\ kanbanTasks[id] # "none"
    /\ Len(taskCalls) < MaxCalls
    /\ TaskUpdatesLogged + TaskUpdatesQueued + (IF appOp.op = "update" THEN 1 ELSE 0)
           < MaxTaskUpdates
    /\ kanbanTasks' = [kanbanTasks EXCEPT ![id] = newStatus]
    /\ pendingWrite' = TRUE
    /\ taskCalls' = Append(taskCalls, [op |-> "update", id |-> id, st |-> newStatus])
    /\ dispatched' = {}
    /\ UNCHANGED <<tasksFile, debounceTimer, tasksUpdated, appOp, mcpOp, nextTaskId, lastWrite>>
    /\ UNCHANGED <<terminals, activeId, agentStatus, rafPending, stream, tasks, nlVars,
                   supVars, bufVars, chanVars>>

\* KanbanBoard.removeTask(id) for a task of the board
removeTask(id) ==
    /\ appPhase = "ready" /\ mainWindow
    /\ kanbanTasks[id] # "none"
    /\ Len(taskCalls) < MaxCalls
    /\ kanbanTasks' = [kanbanTasks EXCEPT ![id] = "none"]
    /\ pendingWrite' = TRUE
    /\ taskCalls' = Append(taskCalls, [op |-> "delete", id |-> id, st |-> "none"])
    /\ dispatched' = {}
    /\ UNCHANGED <<tasksFile, debounceTimer, tasksUpdated, appOp, mcpOp, nextTaskId, lastWrite>>
    /\ UNCHANGED <<terminals, activeId, agentStatus, rafPending, stream, tasks, nlVars,
                   supVars, bufVars, chanVars>>

\* The callback the constructor of KanbanBoard gives to bridge.onTasksUpdated
onTasksUpdated ==
    /\ appPhase = "ready" /\ mainWindow
    /\ tasksUpdated # <<>>
    /\ LET normalized == normalizeFileTasks(Head(tasksUpdated))
       IN  IF pendingWrite
           THEN pendingWrite' = FALSE /\ UNCHANGED kanbanTasks
           ELSE /\ UNCHANGED pendingWrite
                /\ kanbanTasks' = IF TaskIdsOf(kanbanTasks) = TaskIdsOf(normalized)
                                  THEN kanbanTasks
                                  ELSE normalized
    /\ tasksUpdated' = Tail(tasksUpdated)
    /\ dispatched' = {}
    /\ UNCHANGED <<tasksFile, debounceTimer, taskCalls, appOp, mcpOp, nextTaskId, lastWrite>>
    /\ UNCHANGED <<terminals, activeId, agentStatus, rafPending, stream, tasks, nlVars,
                   supVars, bufVars, chanVars>>

\* ipcMain.handle('tasks:add' | 'tasks:update' | 'tasks:delete') up to the
\* return of loadTasks(); tasks:update of a task the file has not returns here.
tasksLoad ==
    /\ appPhase = "ready"
    /\ taskCalls # <<>>
    /\ appOp = NoOp
    /\ LET c == Head(taskCalls)
       IN  appOp' = IF c.op = "update" /\ tasksFile[c.id] = "none"
                    THEN NoOp
                    ELSE [op |-> c.op, id |-> c.id, st |-> c.st, read |-> tasksFile]
    /\ taskCalls' = Tail(taskCalls)
    /\ UNCHANGED <<tasksFile, kanbanTasks, pendingWrite, debounceTimer, tasksUpdated,
                   mcpOp, nextTaskId, lastWrite>>
    /\ UNCHANGED <<terminals, activeId, agentStatus, dispatched, rafPending, stream, tasks,
                   nlVars, supVars, bufVars, chanVars>>

\* The rest of the handler: saveTasks(tasks) of the array loaded and changed,
\* appendSessionLog for tasks:update; fs.watch restarts the debounce timeout.
tasksSave ==
    /\ appPhase = "ready"
    /\ appOp # NoOp
    /\ tasksFile' = ApplyOp(appOp, appOp.read)
    /\ sessionLog' = IF appOp.op = "update"
                     THEN appendSessionLog(sessionLog, <<"TASK_UPDATE", ToString(appOp.id)>>)
                     ELSE sessionLog
    /\ appOp' = NoOp
    /\ debounceTimer' = TRUE
    /\ lastWrite' = "app"
    /\ UNCHANGED <<kanbanTasks, pendingWrite, tasksUpdated, taskCalls, mcpOp, nextTaskId>>
    /\ UNCHANGED <<terminals, activeId, agentStatus, dispatched, rafPending, stream, tasks,
                   nlVars, bufVars, chanVars>>
    /\ UNCHANGED <<appPhase, mainWindow, procs, shells, pidsFile, orphans, killTimers,
                   signals, uncaught, kaizenDirOk, spawnCalls>>

\* The timeout of watchTasksFile, 150 ms after the last change of the file
debounceFire ==
    /\ appPhase = "ready"
    /\ debounceTimer
    /\ appOp = NoOp
    /\ debounceTimer' = FALSE
    /\ IF mainWindow
       THEN /\ Len(tasksUpdated) < MaxUpdates
            /\ tasksUpdated' = Append(tasksUpdated, tasksFile)
       ELSE UNCHANGED tasksUpdated
    /\ UNCHANGED <<tasksFile, kanbanTasks, pendingWrite, taskCalls, appOp, mcpOp,
                   nextTaskId, lastWrite>>
    /\ UNCHANGED <<terminals, activeId, agentStatus, dispatched, rafPending, stream, tasks,
                   nlVars, supVars, bufVars, chanVars>>

\* create_task, update_task or delete_task of the MCP server up to the return
\* of loadTasks(); update_task of a task the file has not returns here.
mcpLoad(op, id, st) ==
    /\ mcpOp = NoOp
    /\ IF op = "add"
       THEN id = nextTaskId /\ nextTaskId <= MaxTasks /\ nextTaskId' = nextTaskId + 1
       ELSE id < nextTaskId /\ UNCHANGED nextTaskId
    /\ mcpOp' = IF op = "update" /\ tasksFile[id] = "none"
                THEN NoOp
                ELSE [op |-> op, id |-> id, st |-> st, read |-> tasksFile]
    /\ UNCHANGED <<tasksFile, kanbanTasks, pendingWrite, debounceTimer, tasksUpdated,
                   taskCalls, appOp, lastWrite>>
    /\ UNCHANGED <<terminals, activeId, agentStatus, dispatched, rafPending, stream, tasks,
                   nlVars, supVars, bufVars, chanVars>>

\* The rest of the tool call: saveTasks(tasks); the watcher of the main process
\* sees the change.
mcpSave ==
    /\ mcpOp # NoOp
    /\ tasksFile' = ApplyOp(mcpOp, mcpOp.read)
    /\ mcpOp' = NoOp
    /\ debounceTimer' = (debounceTimer \/ appPhase = "ready")
    /\ lastWrite' = "mcp"
    /\ UNCHANGED <<kanbanTasks, pendingWrite, tasksUpdated, taskCalls, appOp, nextTaskId>>
    /\ UNCHANGED <<terminals, activeId, agentStatus, dispatched, rafPending, stream, tasks,
                   nlVars, supVars, bufVars, chanVars>>

MaxKeys == 2                 \* keystrokes that wait in the channel to the main process

\* showNLOverlay(id) on nlActiveAgentId and nlOverlay: the id is stored first;
\* no overlay is made for an id without instance or while one is on display.
showNLOverlay(id) ==
    /\ nlActiveAgentId' = id
    /\ nlOverlay' = IF ~terminals[id].exists \/ nlOverlay # "null" THEN nlOverlay ELSE id

\* terminal.onData of the xterm of a registered session, the user having typed
\* '#' (hash) or something else: writeToTerminal(id, data).
writeToTerminal(id, hash) ==
    /\ appPhase = "ready" /\ mainWindow
    /\ terminals[id].exists
    /\ IF nlActiveAgentId = id
       THEN UNCHANGED <<nlVars, toMain>>
       ELSE IF hash
       THEN showNLOverlay(id) /\ UNCHANGED toMain
       ELSE /\ Len(toMain) < MaxKeys
            /\ toMain' = Append(toMain, <<"pty:write", id>>)
            /\ UNCHANGED nlVars
    /\ dispatched' = {}
    /\ UNCHANGED <<terminals, activeId, agentStatus, rafPending, stream, tasks,
                   kanbanVars, supVars, bufVars, toRenderer>>

\* openAIChatOverlay() of main.ts, from the command palette: showNLOverlay for
\* getActiveId(), or for the first agent of state.agents if that is null.
openAIChatOverlay ==
    /\ appPhase = "ready" /\ mainWindow
    /\ \E id \in Ids :
          /\ IF getActiveId # "null" THEN id = getActiveId ELSE AgentExists(id)
          /\ showNLOverlay(id)
    /\ dispatched' = {}
    /\ UNCHANGED <<terminals, activeId, agentStatus, rafPending, stream, tasks,
                   kanbanVars, supVars, bufVars, chanVars>>

\* The keydown listener of the overlay's input for Enter (with or without
\* text) and Escape: hideNLOverlay(), and kaizen-nl-command for the session
\* the overlay was opened for when Enter is pressed on a text.
overlayKey(enter, text) ==
    /\ appPhase = "ready" /\ mainWindow
    /\ nlOverlay # "null"
    /\ nlOverlay' = "null"
    /\ nlActiveAgentId' = "null"
    /\ dispatched' = IF enter /\ text THEN {<<"kaizen-nl-command", nlOverlay>>} ELSE {}
    /\ UNCHANGED <<terminals, activeId, agentStatus, rafPending, stream, tasks,
                   kanbanVars, supVars, bufVars, chanVars>>

\* The prompt branch of trackBlocks is taken for the chunk.
AtBoundary(inst, data) ==
    LET lineBuffer == inst.lineBuffer \o StripCR(AnsiStripFrom(data, 1))
        lines == SplitLF(lineBuffer, <<>>)
    IN  SHELL_PROMPT_RE(Trim(lines[Len(lines)])) /\ Len(lineBuffer) > MinBufferLength

\* The concatenation of the segments from..to of a scripted output.
RECURSIVE Flatten(_, _, _)
Flatten(segs, from, to) ==
    IF from > to THEN <<>> ELSE segs[from] \o Flatten(segs, from + 1, to)

\* The chunk pty:data brings when the next n segments arrive together.
NextChunk(id, n) == Flatten(stream[id].segs, stream[id].pos + 1, stream[id].pos + n)

\* Mutant of onTerminalData: the chunk is processed whether or not the id is
\* registered.
onTerminalData_Unregistered(id, n) ==
    /\ appPhase = "ready" /\ mainWindow
    /\ n >= 1 /\ stream[id].pos + n <= Len(stream[id].segs)
    /\ LET data == NextChunk(id, n)
           inst == terminals[id]
       IN  /\ terminals' = [terminals EXCEPT ![id] =
                  trackBlocks(updatePanelActivity(inst, id = activeId, data), data)]
           /\ dispatched' = PanelEvents(id, id = activeId, data)
           /\ stream' = [stream EXCEPT ![id].pos = @ + n,
                                       ![id].boundaries =
                                           IF AtBoundary(inst, data) THEN @ + 1 ELSE @]
    /\ UNCHANGED <<supVars, nlVars, kanbanVars, bufVars, chanVars, activeId, agentStatus, rafPending, tasks>>

\* The onTerminalData callback of initIPC for a chunk of the next n segments of
\* the output of id: nothing for an id that is not registered; otherwise
\* updatePanelActivity and trackBlocks.
onTerminalData(id, n) ==
    /\ appPhase = "ready" /\ mainWindow
    /\ n >= 1 /\ stream[id].pos + n <= Len(stream[id].segs)
    /\ LET data == NextChunk(id, n)
           inst == terminals[id]
       IN  IF inst.exists
           THEN /\ terminals' = [terminals EXCEPT ![id] =
                       trackBlocks(updatePanelActivity(inst, id = activeId, data), data)]
                /\ dispatched' = PanelEvents(id, id = activeId, data)
                /\ stream' = [stream EXCEPT ![id].pos = @ + n,
                                            ![id].boundaries =
                                                IF AtBoundary(inst, data) THEN @ + 1 ELSE @]
           ELSE /\ UNCHANGED terminals
                /\ dispatched' = {}
                /\ stream' = [stream EXCEPT ![id].pos = @ + n]
    /\ UNCHANGED <<supVars, nlVars, kanbanVars, bufVars, chanVars, activeId, agentStatus, rafPending, tasks>>

----------------------------------------------------------------------------
(* Specifications *)

\* The output chunk of the lifecycle specifications: "\x1b[1ma\r\n \n", a
\* styled line followed by a blank one.
Chunks == { <<ESC, "[", "1", "m", "a", CR, LF, " ", LF>> }

NoOrphan == [alive |-> FALSE, ignoresTerm |-> FALSE]

\* No output is scripted for the id.
NoStream == [segs |-> <<>>, pos |-> 0, boundaries |-> 0]

\* The renderer before it has created a terminal.
InitRenderer ==
    /\ toMain = <<>>
    /\ toRenderer = <<>>
    /\ terminals = [i \in Ids |-> NoInst]
    /\ activeId = "null"
    /\ agentStatus = [i \in Ids |-> "none"]
    /\ dispatched = {}
    /\ rafPending = {}
    /\ stream = [i \in Ids |-> NoStream]
    /\ tasks = [i \in Ids |-> NoTask]
    /\ nlOverlay = "null"
    /\ nlActiveAgentId = "null"
    /\ InitKanban

InitCommon ==
    /\ InitRenderer
    /\ appPhase = "boot"
    /\ mainWindow = FALSE
    /\ procs = <<>>
    /\ shells = [i \in Ids |-> 0]
    /\ killTimers = {}
    /\ signals = <<>>
    /\ terminalBuffers = [i \in Ids |-> NoBuf]
    /\ bufferFiles = [i \in Ids |-> NoFile]
    /\ bufferFlushInterval = 0
    /\ arrival = [i \in Ids |-> <<>>]
    /\ sessionLog = <<>>
    /\ spawnCalls = 0
    /\ uncaught = {}

\* A start after a clean shutdown: no lock file, no orphan.  The directory
\* ~/.kaizen-term is there (or can be made), or it is missing under a home
\* directory that cannot be written.
Init ==
    /\ InitCommon
    /\ kaizenDirOk \in BOOLEAN
    /\ pidsFile = NoLock
    /\ orphans = [p \in OrphanPids |-> NoOrphan]

Requests ==
    \/ \E id \in Ids : ptySpawnFail(id)
    \/ \E id \in Ids : \E pid \in FreePids : ptySpawnLockThrows(id, pid)
    \/ \E id \in Ids : \E pid \in FreePids : ptySpawnOk(id, pid)
    \/ \E id \in Ids : ptyKill(id)

Callbacks ==
    \/ \E k \in 1..Len(procs) : procDies(k)
    \/ \E k \in 1..Len(procs) : termOnExit(k)

Lifecycle ==
    \/ beforeQuit
    \/ windowClosed
    \/ windowAllClosed
    \/ processExit

\* A process prints while its session has received fewer than n lines.
Output(chunks, n) ==
    \E k \in 1..Len(procs) : \E chunk \in chunks :
        /\ Len(arrival[procs[k].id]) < n
        /\ termOnData(k, chunk)

Next ==
    \/ whenReady
    \/ Requests
    \/ Callbacks
    \/ Lifecycle
    \/ \E id \in Ids : \E throws \in BOOLEAN : ptyWrite(id, throws)
    \/ \E id \in Ids : \E throws \in BOOLEAN : ptyResize(id, throws)
    \/ Output(Chunks, MaxBufLines)
    \/ flushTick

Spec == Init /\ [][Next]_vars

\* A start after a crash: the lock file of the earlier run lists two sessions;
\* each listed process is gone, alive, or alive and ignoring SIGTERM (as an
\* interactive shell does).
OrphanStates ==
    { [alive |-> FALSE, ignoresTerm |-> FALSE],
      [alive |-> TRUE, ignoresTerm |-> FALSE],
      [alive |-> TRUE, ignoresTerm |-> TRUE] }

InitStartup ==
    /\ InitCommon
    /\ kaizenDirOk = TRUE
    /\ pidsFile = LockFile({<<"s1", 1>>, <<"s2", 2>>})
    /\ orphans \in [OrphanPids -> OrphanStates]

NextStartup ==
    \/ whenReady
    \/ \E p \in OrphanPids : orphanKillTimer(p)
    \/ \E id \in Ids : \E pid \in FreePids : ptySpawnOk(id, pid)
    \/ Callbacks
    \/ Lifecycle

SpecStartup == InitStartup /\ [][NextStartup]_vars

\* Two sessions whose shells have been printing for a while: each buffer holds
\* between RING_BUFFER_MAX_LINES - MaxHeadroom and RING_BUFFER_MAX_LINES lines.
\* The processes then print the chunks of BufChunks until MaxOverflow lines
\* beyond the capacity have arrived.
Prefill(n) == [i \in 1..n |-> IF i % 2 = 1 THEN <<"a">> ELSE <<"b">>]

Prefills == {Prefill(RING_BUFFER_MAX_LINES - d) : d \in 0..MaxHeadroom}

\* "a\r\n";  "\x1b[1;1mb\n \nab" (two lines around a blank one, the last one
\* unterminated);  " \n\r\n" (blank lines only);  "b\x1b[\n" (a sequence cut
\* short by the end of the line).
BufChunks ==
    { <<"a", CR, LF>>,
      <<ESC, "[", "1", ";", "1", "m", "b", LF, " ", LF, "a", "b">>,
      <<" ", LF, CR, LF>>,
      <<"b", ESC, "[", LF>> }

InitBuf ==
    /\ InitRenderer
    /\ kaizenDirOk = TRUE
    /\ appPhase = "ready"
    /\ mainWindow = TRUE
    /\ procs = <<Term("s1", FreshPidAfter(0)), Term("s2", FreshPidAfter(1))>>
    /\ shells = [i \in Ids |-> IF i = "s1" THEN 1 ELSE 2]
    /\ pidsFile = writePidLock(shells, procs)
    /\ orphans = [p \in OrphanPids |-> NoOrphan]
    /\ killTimers = {}
    /\ signals = <<>>
    /\ sessionLog = <<<<"SPAWN", "s1">>, <<"SPAWN", "s2">>>>
    /\ spawnCalls = 2
    /\ uncaught = {}
    /\ arrival \in [Ids -> Prefills]
    /\ terminalBuffers = [i \in Ids |-> Buf(arrival[i])]
    /\ bufferFiles = [i \in Ids |-> NoFile]
    /\ bufferFlushInterval = 1

NextBuf == Output(BufChunks, RING_BUFFER_MAX_LINES + MaxOverflow)

SpecBuf == InitBuf /\ [][NextBuf]_vars

\* The window with its renderer next to the main process, on a working disk:
\* the user creates, activates and removes terminals, every pty:spawn and
\* pty:kill the main process handles is the request at the head of the channel.
InitUi ==
    /\ InitCommon
    /\ kaizenDirOk = TRUE
    /\ pidsFile = NoLock
    /\ orphans = [p \in OrphanPids |-> NoOrphan]

\* The main process handles the request at the head of the channel.
MainHandles ==
    /\ toMain # <<>>
    /\ \E id \in Ids :
          \/ /\ Head(toMain) = <<"pty:spawn", id>>
             /\ \/ ptySpawnFail(id)
                \/ \E pid \in FreePids : ptySpawnOk(id, pid)
          \/ /\ Head(toMain) = <<"pty:kill", id>>
             /\ ptyKill(id)

RendererHandles ==
    \E id \in Ids : spawnReply(id) \/ onTerminalExit(id)

UserActs ==
    \/ \E id \in Ids : createTerminal(id)
    \/ \E id \in Ids : removeTerminal(id)
    \/ \E id \in Ids : setActive(id)
    \/ \E id \in Ids : clickRestart(id)
    \/ \E id \in Ids : clickReconnect(id)
    \/ destroy

NextUi ==
    \/ whenReady
    \/ UserActs
    \/ \E id \in Ids : rafSpawn(id)
    \/ MainHandles
    \/ Callbacks
    \/ RendererHandles

SpecUi == InitUi /\ [][NextUi]_vars

\* The two processes with sessions that are created and removed, shells that
\* print, and keystrokes and resizes arriving for any id.
NextIso ==
    \/ whenReady
    \/ \E id \in Ids : createTerminal(id)
    \/ \E id \in Ids : removeTerminal(id)
    \/ \E id \in Ids : rafSpawn(id)
    \/ MainHandles
    \/ Callbacks
    \/ RendererHandles
    \/ Output(Chunks, MaxBufLines)
    \/ \E id \in Ids : \E throws \in BOOLEAN : ptyWrite(id, throws)
    \/ \E id \in Ids : \E throws \in BOOLEAN : ptyResize(id, throws)

SpecIso == InitUi /\ [][NextIso]_vars

\* Two running sessions that have printed nothing yet; the flush timer runs.
InitFlush ==
    /\ InitRenderer
    /\ kaizenDirOk \in BOOLEAN
    /\ appPhase = "ready"
    /\ mainWindow = TRUE
    /\ procs = <<Term("s1", FreshPidAfter(0)), Term("s2", FreshPidAfter(1))>>
    /\ shells = [i \in Ids |-> IF i = "s1" THEN 1 ELSE 2]
    /\ pidsFile = writePidLock(shells, procs)
    /\ orphans = [p \in OrphanPids |-> NoOrphan]
    /\ killTimers = {}
    /\ signals = <<>>
    /\ sessionLog = <<<<"SPAWN", "s1">>, <<"SPAWN", "s2">>>>
    /\ spawnCalls = 2
    /\ uncaught = {}
    /\ arrival = [i \in Ids |-> <<>>]
    /\ terminalBuffers = [i \in Ids |-> NoBuf]
    /\ bufferFiles = [i \in Ids |-> NoFile]
    /\ bufferFlushInterval = 1

\* The file system: writes below ~/.kaizen-term start or stop failing (disk
\* full, directory removed or made read-only, and back).
diskFault ==
    /\ kaizenDirOk' = ~kaizenDirOk
    /\ UNCHANGED <<rendVars, chanVars, bufVars, spawnCalls, appPhase, mainWindow, procs, shells,
                   pidsFile, orphans, killTimers, signals, sessionLog, uncaught>>

NextFlush ==
    \/ Output(BufChunks, MaxBufLines + 1)
    \/ flushTick
    \/ diskFault

SpecFlush == InitFlush /\ [][NextFlush]_vars

\* A session log of n lines written by earlier runs.
MaxLogHeadroom == 1
OldLog(n) == [k \in 1..n |-> <<"OLD", ToString(k)>>]
LogPrefills == {OldLog(LOG_ROTATE_LINES - 1 - d) : d \in 0..MaxLogHeadroom}

\* The application is ready with no session, over a session log that is close
\* to its rotation.
InitLog ==
    /\ InitRenderer
    /\ kaizenDirOk = TRUE
    /\ appPhase = "ready"
    /\ mainWindow = TRUE
    /\ procs = <<>>
    /\ shells = [i \in Ids |-> 0]
    /\ pidsFile = NoLock
    /\ orphans = [p \in OrphanPids |-> NoOrphan]
    /\ killTimers = {}
    /\ signals = <<>>
    /\ terminalBuffers = [i \in Ids |-> NoBuf]
    /\ bufferFiles = [i \in Ids |-> NoFile]
    /\ bufferFlushInterval = 0
    /\ arrival = [i \in Ids |-> <<>>]
    /\ sessionLog \in LogPrefills
    /\ spawnCalls = 0
    /\ uncaught = {}

NextLog ==
    \/ \E id \in Ids : ptySpawnFail(id)
    \/ \E id \in Ids : \E pid \in FreePids : ptySpawnOk(id, pid)
    \/ \E id \in Ids : ptyKill(id)
    \/ Callbacks

SpecLog == InitLog /\ [][NextLog]_vars

\* Agents are spawned for Kanban tasks, and their shells exit with any code.
NextTask ==
    \/ whenReady
    \/ \E id \in Ids : \E column \in TaskColumns : \E agentId \in BOOLEAN :
          addAgentForTask(id, column, agentId)
    \/ \E id \in Ids : rafSpawn(id)
    \/ MainHandles
    \/ Callbacks
    \/ \E k \in 1..Len(procs) : termOnExitFailed(k)
    \/ RendererHandles

SpecTask == InitUi /\ [][NextTask]_vars

\* The main process from its start to its end, with a usable ~/.kaizen-term:
\* sessions are spawned again and again, their shells print and exit, the flush
\* interval fires, the application is shut down.
NextTimer ==
    \/ whenReady
    \/ \E id \in Ids : ptySpawnFail(id)
    \/ \E id \in Ids : \E pid \in FreePids : ptySpawnOk(id, pid)
    \/ Callbacks
    \/ Output(Chunks, MaxBufLines)
    \/ flushTick
    \/ Lifecycle

SpecTimer == InitUi /\ [][NextTimer]_vars

\* setInterval(flushBuffersToDisk, 2000): an interval that is set fires.
FairTimer == WF_vars(flushTick)

SpecTimerFair == SpecTimer /\ FairTimer

\* The event loops of both processes run every callback that is due.
FairUi ==
    /\ WF_vars(MainHandles)
    /\ WF_vars(RendererHandles)
    /\ WF_vars(\E id \in Ids : rafSpawn(id))
    /\ \A k \in 1..MaxSpawns : WF_vars(k \in 1..Len(procs) /\ termOnExit(k))

SpecUiFair == SpecUi /\ FairUi

\* Output of a shell, cut where chunks can end.  The prompt is longer than
\* MinBufferLength; bash sends ESC[?2004h before a prompt.
Prompt == <<"u", "@", "h", ":", "~", "/", "a", "p", "p", " ", "$", " ">>
PastePrompt == <<ESC, "[", "?", "2", "0", "0", "4", "h", "u", "@", "h", ":", "~", "/", "a", "p", "p", " ", "$", " ">>

\* echo hi: the echoed command line, its output, the next prompt
EchoHi ==
    << Prompt, <<"e", "c", "h", "o", " ">>, <<"h", "i", CR, LF>>, <<"h", "i", CR, LF>>, PastePrompt >>

\* a failing make whose last line is printed in red, the prompt "$ "
Failed ==
    << Prompt, <<"m", "a", "k", "e", CR, LF>>, <<ESC, "[", "3", "1", "m", "F", "A", "I", "L", "E", "D", ESC, "[", "0", "m", CR, LF>>, <<"$", " ">> >>

\* an error in red and a prompt whose glyph is coloured
Colour ==
    << Prompt, <<"l", "s", " ", "x", CR, LF>>, <<ESC, "[", "3", "1", "m", "e", "r", "r", "o", "r", ESC, "[", "0", "m", CR, LF>>, <<ESC, "[", "3", "2", "m", "$", ESC, "[", "0", "m", " ">> >>

\* a confirmation with [y/N]
AskYesNo ==
    << <<"O", "v", "e", "r", "w", "r", "i", "t", "e", " ", "a", " ">>, <<"[", "y", "/", "N", "]", " ">> >>

\* an installer that ends in a question
Ask ==
    << <<"n", "p", "m", " ", "i", CR, LF>>, <<"C", "o", "n", "t", "i", "n", "u", "e", "?", " ">> >>

\* return is pressed at the prompt without a command
EmptyLine ==
    << Prompt, <<CR, LF>>, Prompt, <<CR, LF>>, Prompt >>

\* two commands with their prompts
TwoCommands ==
    << Prompt, <<"l", "s", CR, LF>>, Prompt, <<"p", "w", "d", CR, LF>>, Prompt >>

\* a short command at a shell whose later prompts are a bare "$ "
ShortPrompt ==
    << Prompt, <<"l", "s", CR, LF>>, <<"$", " ">> >>

Scripts == {EchoHi, Failed, Colour, AskYesNo, Ask, EmptyLine, ShortPrompt}

MaxSegs == 4                 \* segments of output that can arrive in one chunk

\* Two registered sessions with running shells, one of them active; the
\* output of each shell is one of the scripts, the script `short` for one of
\* them at least.  The supervisor's own handling
\* of the same output (the ring buffers) is left to the other specifications.
InitStreamWith(scripts, short, prefills) ==
    /\ kaizenDirOk = TRUE
    /\ appPhase = "ready"
    /\ mainWindow = TRUE
    /\ procs = <<Term("s1", FreshPidAfter(0)), Term("s2", FreshPidAfter(1))>>
    /\ shells = [i \in Ids |-> IF i = "s1" THEN 1 ELSE 2]
    /\ pidsFile = writePidLock(shells, procs)
    /\ orphans = [p \in OrphanPids |-> NoOrphan]
    /\ killTimers = {}
    /\ signals = <<>>
    /\ sessionLog = <<<<"SPAWN", "s1">>, <<"SPAWN", "s2">>>>
    /\ spawnCalls = 2
    /\ uncaught = {}
    /\ arrival = [i \in Ids |-> <<>>]
    /\ terminalBuffers = [i \in Ids |-> NoBuf]
    /\ bufferFiles = [i \in Ids |-> NoFile]
    /\ bufferFlushInterval = 1
    /\ toMain = <<>>
    /\ toRenderer = <<>>
    /\ activeId \in Ids
    /\ \E f \in [Ids -> prefills] :
          terminals = Activate([i \in Ids |-> [Inst EXCEPT !.blocks = f[i]]], activeId)
    /\ agentStatus = [i \in Ids |-> "idle"]
    /\ dispatched = {}
    /\ rafPending = {}
    /\ tasks = [i \in Ids |-> NoTask]
    /\ nlOverlay = "null"
    /\ nlActiveAgentId = "null"
    /\ InitKanban
    /\ \E f \in [Ids -> scripts] :
          /\ Cardinality({i \in Ids : f[i] # short}) <= 1
          /\ stream = [i \in Ids |-> [NoStream EXCEPT !.segs = f[i]]]

InitStream == InitStreamWith(Scripts, Ask, {<<>>})

NextStream ==
    \/ \E id \in Ids : \E n \in 1..MaxSegs : onTerminalData(id, n)
    \/ \E id \in Ids : setActive(id)

SpecStream == InitStream /\ [][NextStream]_vars

MaxBlockHeadroom == 1        \* free entries of a block history that has filled up

\* A committed block of an earlier command, told from the others by its number.
OldBlock(k) ==
    [open |-> TRUE, command |-> <<"c">>, output |-> <<<<ToString(k)>>>>, hasError |-> FALSE]

BlockPrefills ==
    {[k \in 1..n |-> OldBlock(k)] : n \in (BlockHistoryMax - MaxBlockHeadroom)..BlockHistoryMax}

\* Sessions whose block history is at the cap or next to it.
InitBlockCap == InitStreamWith({TwoCommands, EmptyLine, Ask}, Ask, BlockPrefills)

SpecBlockCap == InitBlockCap /\ [][NextStream]_vars

\* Two running sessions whose shells print while the user removes sessions and
\* activates panels: the kills reach the main process, and the exits of the
\* shells come back to the renderer.
InitRemoval == InitStreamWith({Failed, Ask}, Ask, {<<>>})

NextRemoval ==
    \/ \E id \in Ids : \E n \in 1..MaxSegs : onTerminalData(id, n)
    \/ \E id \in Ids : removeTerminal(id)
    \/ \E id \in Ids : setActive(id)
    \/ \E id \in Ids : toMain # <<>> /\ Head(toMain) = <<"pty:kill", id>> /\ ptyKill(id)
    \/ Callbacks
    \/ \E id \in Ids : onTerminalExit(id)

SpecRemoval == InitRemoval /\ [][NextRemoval]_vars

\* term.onData callback of the pty k of a session the renderer has no instance
\* for (it ignores the pty:data message): the next n segments of the scripted
\* output of the process arrive as one chunk.
termOnDataNext(k, n) ==
    /\ Running
    /\ procs[k].wired
    /\ procs[k].st = "alive"
    /\ ~terminals[procs[k].id].exists
    /\ n >= 1 /\ stream[procs[k].id].pos + n <= Len(stream[procs[k].id].segs)
    /\ LET id == procs[k].id
           chunk == NextChunk(id, n)
       IN  /\ terminalBuffers' = appendToBuffer(terminalBuffers, id, chunk)
           /\ arrival' = [arrival EXCEPT ![id] = @ \o ChunkLines(chunk)]
           /\ stream' = [stream EXCEPT ![id].pos = @ + n]
    /\ UNCHANGED <<terminals, activeId, agentStatus, dispatched, rafPending, tasks, nlVars, kanbanVars,
                   chanVars, supVars, bufferFiles, bufferFlushInterval>>

\* Texts cut where the pty can cut them: after a line; inside a line; inside an
\* escape sequence; between a carriage return and its line feed, with a blank
\* line.
AtLines == << <<"a", "b", CR, LF>>, <<"c", LF>>, <<"d", LF>> >>
InLine == << <<"a">>, <<"b", CR, LF>>, <<"c">>, <<"d", LF>> >>
InEscape == << <<ESC, "[">>, <<"1", "m", "a", LF>>, <<"b", ESC, "[", "0">>, <<"m", LF>> >>
InNewline == << <<"a", CR>>, <<LF, " ">>, <<" ", LF, "b">>, <<LF>> >>
CutTexts == {AtLines, InLine, InEscape, InNewline}

\* Two running sessions with empty ring buffers and no terminal in the renderer,
\* each about to print one of the texts.
InitChunk ==
    /\ kaizenDirOk = TRUE
    /\ appPhase = "ready"
    /\ mainWindow = TRUE
    /\ procs = <<Term("s1", FreshPidAfter(0)), Term("s2", FreshPidAfter(1))>>
    /\ shells = [i \in Ids |-> IF i = "s1" THEN 1 ELSE 2]
    /\ pidsFile = writePidLock(shells, procs)
    /\ orphans = [p \in OrphanPids |-> NoOrphan]
    /\ killTimers = {}
    /\ signals = <<>>
    /\ sessionLog = <<<<"SPAWN", "s1">>, <<"SPAWN", "s2">>>>
    /\ spawnCalls = 2
    /\ uncaught = {}
    /\ arrival = [i \in Ids |-> <<>>]
    /\ terminalBuffers = [i \in Ids |-> NoBuf]
    /\ bufferFiles = [i \in Ids |-> NoFile]
    /\ bufferFlushInterval = 1
    /\ toMain = <<>>
    /\ toRenderer = <<>>
    /\ terminals = [i \in Ids |-> NoInst]
    /\ activeId = "null"
    /\ agentStatus = [i \in Ids |-> "none"]
    /\ dispatched = {}
    /\ rafPending = {}
    /\ tasks = [i \in Ids |-> NoTask]
    /\ nlOverlay = "null"
    /\ nlActiveAgentId = "null"
    /\ InitKanban
    /\ \E f \in [Ids -> CutTexts] : stream = [i \in Ids |-> [NoStream EXCEPT !.segs = f[i]]]

NextCuts == \E k \in 1..Len(procs) : \E n \in 1..MaxSegs : termOnDataNext(k, n)

SpecChunk == InitChunk /\ [][NextCuts]_vars

\* Two registered sessions with running shells: the user types into the
\* terminals, opens and closes the overlay, changes the active panel and
\* removes sessions; the main process handles the writes and kills.
InitOverlay == InitStreamWith({Ask}, Ask, {<<>>})

NextOverlay ==
    \/ \E id \in Ids : \E hash \in BOOLEAN : writeToTerminal(id, hash)
    \/ openAIChatOverlay
    \/ \E enter, text \in BOOLEAN : overlayKey(enter, text)
    \/ \E id \in Ids : setActive(id)
    \/ \E id \in Ids : removeTerminal(id)
    \/ \E id \in Ids : toMain # <<>> /\ Head(toMain) = <<"pty:write", id>> /\ ptyWrite(id, FALSE)
    \/ \E id \in Ids : toMain # <<>> /\ Head(toMain) = <<"pty:kill", id>> /\ ptyKill(id)

SpecOverlay == InitOverlay /\ [][NextOverlay]_vars

\* The application is ready, the board shows the one task of the file: the
\* user works on the board, the MCP server is called by an agent, the main
\* process handles the invocations and the watcher's timeout.
InitKanbanFile == InitStreamWith({Ask}, Ask, {<<>>}) /\ activeId = "s1"

NextKanban ==
    \/ \E st \in Statuses : addTask(st)
    \/ \E id \in TaskIds : \E st \in Statuses : moveTask(id, st)
    \/ \E id \in TaskIds : removeTask(id)
    \/ onTasksUpdated
    \/ tasksLoad
    \/ tasksSave
    \/ debounceFire
    \/ \E id \in TaskIds : \E st \in Statuses : mcpLoad("add", id, st)
    \/ \E id \in TaskIds : \E st \in Statuses : mcpLoad("update", id, st)
    \/ \E id \in TaskIds : mcpLoad("delete", id, "none")
    \/ mcpSave

SpecKanban == InitKanbanFile /\ [][NextKanban]_vars

----------------------------------------------------------------------------
(* Claims about the process supervisor *)

ProcIdx == 1..Len(procs)

\* The lock file lists exactly the (session id, pid) pairs of shells.
LockMatchesShells ==
    /\ pidsFile.exists
    /\ pidsFile.entries = {<<i, procs[shells[i]].pid>> : i \in {j \in Ids : shells[j] # 0}}

\* process.kill has delivered sig to pid p.
Signalled(p, sig) == \E i \in 1..Len(signals) : signals[i] = <<p, sig>>

\* A process the supervisor has reason to believe alive: term.kill() was not
\* called on it and its exit event has not been handled.
Believed(k) == procs[k].st # "exited" /\ ~procs[k].killed

\* C1: in every reachable state shells has an entry for a session id if and
\* only if a process spawned for that id is still alive (neither exited nor
\* killed), and every process that is still alive is the one its id's entry
\* holds, so that it can be written to, resized and killed.
C1_HandleIffAlive ==
    /\ \A id \in Ids :
          shells[id] # 0 <=> \E k \in ProcIdx : procs[k].id = id /\ Believed(k)
    /\ \A k \in ProcIdx : Believed(k) => shells[procs[k].id] = k

\* C2: when pty:spawn succeeds for an id that holds the handle of an earlier
\* successful spawn (no kill or exit in between), the one entry of the id refers
\* to the second pty afterwards and the first pty is no entry of shells any more.
C2_SecondSpawnReplaces ==
    [][\A id \in Ids :
          ( /\ shells[id] # 0
            /\ Len(procs') = Len(procs) + 1
            /\ procs'[Len(procs')].id = id
            /\ procs'[Len(procs')].wired )
          => ( /\ shells'[id] = Len(procs')
               /\ \A j \in Ids : shells'[j] # shells[id] )]_vars

\* Two successful spawns of one id, the first process still running: the entry
\* is the second pty.
C2_Witness ==
    \E id \in Ids :
        /\ Len(procs) = 2
        /\ procs[1].id = id /\ procs[2].id = id
        /\ procs[1].wired /\ procs[2].wired
        /\ procs[1].st = "alive" /\ ~procs[1].killed
        /\ shells[id] = 2

\* The processes whose onData callback appends to the ring buffer of id.
Writers(id) == {k \in ProcIdx : procs[k].id = id /\ procs[k].wired /\ procs[k].st = "alive"}

\* C3: at any time at most one live process has its output appended to the
\* ring buffer (and forwarded to the block history) of a session.
C3_SingleWriter == \A id \in Ids : Cardinality(Writers(id)) <= 1

\* The last n elements of a sequence.
LastN(a, n) == SubSeq(a, Len(a) - n + 1, Len(a))

\* C4: after any sequence of appendToBuffer calls every ring buffer holds at
\* most RING_BUFFER_MAX_LINES lines, and they are the most recently arrived
\* lines of the session in arrival order (evictions take the oldest).
C4_RingBuffer ==
    \A id \in Ids :
        LET a == arrival[id]
            b == terminalBuffers[id].lines
        IN  /\ Len(b) <= RING_BUFFER_MAX_LINES
            /\ b = IF Len(a) <= RING_BUFFER_MAX_LINES THEN a
                   ELSE LastN(a, RING_BUFFER_MAX_LINES)

\* Both sessions have lost at least two lines to eviction.
C4_Witness ==
    \A id \in Ids :
        /\ Len(arrival[id]) > RING_BUFFER_MAX_LINES + 1
        /\ Len(terminalBuffers[id].lines) = RING_BUFFER_MAX_LINES

\* C5: pty:kill for an id without a handle changes nothing (shells, lock file,
\* session log, ring buffers, no exception), and pty:kill always leaves the id
\* without a handle, so that a second kill of the id is such a no-op.
C5_KillWithoutHandle ==
    [][\A id \in Ids :
          ptyKill(id) => ( /\ shells'[id] = 0
                           /\ shells[id] = 0 => UNCHANGED vars )]_vars

\* A session that was killed and has no handle, where a kill can be requested
\* again while another session is running.
C5_Witness ==
    /\ appPhase = "ready" /\ mainWindow
    /\ \E id \in Ids :
          /\ shells[id] = 0
          /\ \E i \in 1..Len(sessionLog) : sessionLog[i] = <<"KILL", id>>
          /\ \E j \in Ids : shells[j] # 0 /\ procs[shells[j]].st = "alive"

\* C6: pty:write and pty:resize to a session whose process is dead are dropped:
\* no exception escapes either handler.
C6_NoErrorEscapes == "pty:write" \notin uncaught /\ "pty:resize" \notin uncaught

\* pty:spawn returns {error} for id.
SpawnReturnsError(id) ==
    \/ ptySpawnFail(id)
    \/ \E pid \in FreePids : ptySpawnLockThrows(id, pid)

C9_CleanupBeforeFirstSpawn ==
    procs # <<>> =>
        /\ \A p \in OrphanPids : orphans[p].alive => Signalled(p, "SIGTERM")
        /\ pidsFile.entries \subseteq {<<procs[k].id, procs[k].pid>> : k \in ProcIdx}

\* A session has been spawned while an orphan that got SIGTERM is still alive
\* and its SIGKILL timer is pending.
C9_Witness ==
    /\ procs # <<>>
    /\ \E p \in OrphanPids :
          orphans[p].alive /\ Signalled(p, "SIGTERM") /\ p \in killTimers

\* C10: SIGKILL goes to an orphan only after SIGTERM did; the lock file is gone
\* once cleanup has probed its entries; every orphan listed in the lock is
\* terminated in the end: none is alive when the run is over.
C10_OrphansTerminated ==
    /\ \A i \in 1..Len(signals) :
          signals[i][2] = "SIGKILL" =>
              \E j \in 1..(i - 1) : signals[j] = <<signals[i][1], "SIGTERM">>
    /\ (appPhase # "boot" /\ procs = <<>>) => ~pidsFile.exists
    /\ appPhase = "exited" => \A p \in OrphanPids : ~orphans[p].alive

\* C11: when the lock lists a pid whose process is gone at startup, cleanup
\* sends it no signal and arms no timer for it, no exception leaves cleanup,
\* and the lock file does not exist afterwards.
C11_DeadPidSkipped ==
    [][(appPhase = "boot" /\ appPhase' # "boot" /\ pidsFile.exists)
       => ( /\ \A p \in LockPids :
                 ~orphans[p].alive =>
                     /\ p \notin killTimers'
                     /\ ~\E i \in 1..Len(signals') : signals'[i][1] = p
            /\ uncaught' = uncaught
            /\ ~pidsFile'.exists )]_vars

\* Cleanup has run over a lock that listed a dead pid next to a live one: the
\* live one was signalled, the dead one was not.
C11_Witness ==
    /\ appPhase = "ready" /\ procs = <<>>
    /\ ~pidsFile.exists
    /\ \E p \in OrphanPids : \E q \in OrphanPids :
          /\ ~Signalled(p, "SIGTERM") /\ ~Signalled(p, "SIGKILL")
          /\ Signalled(q, "SIGTERM")

----------------------------------------------------------------------------
(* Claims about the sessions of the renderer *)

\* A process of a registered session has died by itself and its exit is yet to
\* be handled.
DiedByItself(k) ==
    /\ procs[k].st = "dead" /\ ~procs[k].killed /\ procs[k].wired
    /\ shells[procs[k].id] = k
    /\ terminals[procs[k].id].exists

\* The renderer takes pty:exit of id from the channel.
TakesExit(id) ==
    /\ toRenderer # <<>>
    /\ Len(Head(toRenderer)) = 3
    /\ Head(toRenderer)[1] = "pty:exit" /\ Head(toRenderer)[2] = id
    /\ toRenderer' = Tail(toRenderer)

C13_KillIsNotExit ==
    [][\A k \in 1..Len(procs) :
          (appPhase = "ready" /\ procs[k].killed /\ procs[k].st = "dead"
                /\ procs'[k].st = "exited")
              => /\ toRenderer' = toRenderer
                 /\ sessionLog' = sessionLog]_vars

\* The renderer part of C13: a pty:exit that follows the removal of a session
\* changes no status.
C13_NoStatusDone ==
    [][\A id \in Ids :
          (TakesExit(id) /\ ~terminals[id].exists)
              => agentStatus' = agentStatus]_vars

\* The log file of every session that has a ring buffer holds the lines of the buffer.
DiskEqualsBuffers(files, bufs) ==
    \A id \in Ids : bufs[id].exists => files[id] = bufs[id]

Destroyed(id) ==
    /\ shells[id] = 0
    /\ \E k \in 1..Len(procs) : procs[k].id = id
    /\ \A k \in 1..Len(procs) : procs[k].id = id => procs[k].st = "exited"

\* C15: the ring buffer of a session is not cleared while its process is alive;
\* once the session is destroyed the buffer is flushed and discarded, so that
\* readOutput for the id returns the empty result and a later spawn with the
\* same id starts from an empty buffer.
C15_BufferDiscarded ==
    /\ [][\A id \in Ids :
             (\E k \in 1..Len(procs) : procs[k].id = id /\ procs[k].st = "alive"
                                        /\ procs'[k].st = "alive")
                 => (terminalBuffers[id].lines # <<>>
                        => terminalBuffers'[id].lines # <<>>)]_vars
    /\ [](\A id \in Ids :
             Destroyed(id) => readOutput(terminalBuffers, id).count = 0)
    /\ [][\A id \in Ids :
             (Destroyed(id) /\ shells'[id] # 0) => terminalBuffers'[id].lines = <<>>]_vars

----------------------------------------------------------------------------
(* Claims about the block segmenter and the stream classifier *)

\* The open block of an instance has neither a command nor output.
OpenAndEmpty(inst) ==
    inst.currentBlock.open /\ inst.currentBlock.command = <<>> /\ inst.currentBlock.output = <<>>

\* The chunk just handled for id was a prompt boundary.
BoundaryStep(id) == stream'[id].boundaries = stream[id].boundaries + 1

\* C16: every block of the committed history of a session has a command or at
\* least one output line, and an open block with neither is dropped at the
\* prompt boundary: the history stays as it was.
C16_NoEmptyBlock ==
    /\ [](\A id \in Ids : \A k \in 1..Len(terminals[id].blocks) :
             \/ terminals[id].blocks[k].command # <<>>
             \/ terminals[id].blocks[k].output # <<>>)
    /\ [][\A id \in Ids :
             (BoundaryStep(id) /\ OpenAndEmpty(terminals[id]))
                 => terminals'[id].blocks = terminals[id].blocks]_vars

\* Return was pressed twice at the prompt: three boundaries, the open block was
\* empty at the last two, and nothing is committed.
C16_Witness ==
    \E id \in Ids :
        /\ stream[id].segs = EmptyLine
        /\ stream[id].boundaries = 3
        /\ terminals[id].blocks = <<>>
        /\ OpenAndEmpty(terminals[id])

\* C17: the committed history of a session never has more than 50 blocks; a
\* block committed at the cap evicts the oldest one and the others keep their
\* order.
C17_HistoryCap ==
    /\ [](\A id \in Ids : Len(terminals[id].blocks) <= BlockHistoryMax)
    /\ [][\A id \in Ids :
             LET old == terminals[id].blocks
                 new == terminals'[id].blocks
             IN  IF /\ BoundaryStep(id)
                    /\ terminals[id].currentBlock.open
                    /\ ~OpenAndEmpty(terminals[id])
                 THEN \/ /\ Len(old) < BlockHistoryMax
                         /\ new = Append(old, terminals[id].currentBlock)
                      \/ /\ Len(old) = BlockHistoryMax
                         /\ new = Append(Tail(old), terminals[id].currentBlock)
                 ELSE new = old]_vars

\* A history that was full has taken two more blocks: the two oldest are gone.
C17_Witness ==
    \E id \in Ids :
        LET b == terminals[id].blocks
        IN  /\ Len(b) = BlockHistoryMax
            /\ b[1] = OldBlock(3)
            /\ b[BlockHistoryMax - 1].command = <<"l", "s">>
            /\ b[BlockHistoryMax].command = <<"p", "w", "d">>

\* The renderer has got all the scripted output of id.
Delivered(id) == stream[id].pos = Len(stream[id].segs)

\* The block the lines 'echo hi', 'hi' between two prompts are to yield.
EchoHiBlock ==
    [open |-> TRUE, command |-> <<"e", "c", "h", "o", " ", "h", "i">>,
     output |-> <<<<"h", "i">>>>, hasError |-> FALSE]

\* C18: the output between two prompt boundaries yields a committed block whose
\* command is the first non-empty line and whose output is the other non-empty
\* lines in order, the lines that arrive with the closing prompt included:
\* 'echo hi', 'hi' and a prompt yield command 'echo hi', output ['hi'] and no
\* error, however the stream is cut into chunks.
C18_EchoHiBlock ==
    \A id \in Ids :
        (stream[id].segs = EchoHi /\ Delivered(id))
            => terminals[id].blocks = <<EchoHiBlock>>

\* The chunk the renderer handles for id in this step, <<>> if it handles none.
ChunkHandled(id) ==
    IF stream'[id].pos > stream[id].pos
    THEN NextChunk(id, stream'[id].pos - stream[id].pos)
    ELSE <<>>

\* The last non-empty line of a chunk, as the output capture of the main
\* process takes its lines, ends in a prompt glyph.
LastLineEndsInGlyph(data) ==
    /\ ChunkLines(data) # <<>>
    /\ LET line == Trim(ChunkLines(data)[Len(ChunkLines(data))])
       IN  line # <<>> /\ line[Len(line)] \in Glyphs

\* C19: for a chunk that has a red colour sequence or an error keyword and
\* whose last non-empty line ends in a prompt glyph, the classifier reports the
\* error (has-errors and the kaizen-terminal-error event) and the prompt
\* boundary (the ready badge).
C19_ErrorAndPrompt ==
    [][\A id \in Ids :
          LET data == ChunkHandled(id)
          IN  (terminals[id].exists /\ ANSI_ERROR_RE(data) /\ LastLineEndsInGlyph(data))
                  => /\ terminals'[id].hasErrors
                     /\ <<"kaizen-terminal-error", id>> \in dispatched'
                     /\ terminals'[id].badge = "ready"]_vars

\* The chunk of the claim's example, ESC[31m FAILED ESC[0m CR LF '$ ', has been
\* handled: both signals are there.
C19_ExampleChunk ==
    [][\A id \in Ids :
          (terminals[id].exists /\ ChunkHandled(id) = Failed[3] \o Failed[4])
              => /\ terminals'[id].hasErrors
                 /\ <<"kaizen-terminal-error", id>> \in dispatched'
                 /\ terminals'[id].badge = "ready"]_vars

\* The trimmed last non-empty line of a chunk after ANSI stripping, as the
\* output capture of the main process strips; <<>> for a chunk without one.
StrippedLastLine(data) ==
    IF ChunkLines(data) = <<>> THEN <<>>
    ELSE Trim(ChunkLines(data)[Len(ChunkLines(data))])

\* The blocked-on-input signal is raised for id in this step.
BlockedRaised(id) ==
    /\ <<"kaizen-terminal-blocked", id>> \in dispatched'
    /\ terminals'[id].isBlocked

\* The half of C20 about the active session: no chunk raises the blocked
\* signal for it, and it never carries the blocked flag.
C20_NeverForActive ==
    /\ [](\A id \in Ids : id = activeId => ~terminals[id].isBlocked)
    /\ [][\A id \in Ids :
             (ChunkHandled(id) # <<>> /\ id = activeId)
                 => <<"kaizen-terminal-blocked", id>> \notin dispatched']_vars

\* C20: the blocked-on-input signal (the kaizen-terminal-blocked event and the
\* blocked flag) is never raised for the active session, and it is raised for
\* a session that is not active whenever the last line of a chunk matches the
\* blocked-input pattern.
C20_BlockedSignal ==
    /\ C20_NeverForActive
    /\ [][\A id \in Ids :
             (/\ terminals[id].exists /\ id # activeId
              /\ ChunkHandled(id) # <<>>
              /\ INPUT_BLOCKED_RE(StrippedLastLine(ChunkHandled(id))))
                 => BlockedRaised(id)]_vars

----------------------------------------------------------------------------
(* Claims about the session registry *)

\* The registered sessions whose panel has the class active.
MarkedActive == {i \in Ids : terminals[i].exists /\ terminals[i].active}

\* C21: at most one session is marked active at any time, and a step that
\* makes a registered id the active one (setActive(id)) leaves exactly that
\* session marked, with getActiveId() = id.
C21_OneActive ==
    /\ [](Cardinality(MarkedActive) <= 1)
    /\ [](\A id \in Ids : (terminals[id].exists /\ getActiveId = id) => MarkedActive = {id})
    /\ [][\A id \in Ids :
             (activeId' = id /\ activeId # id /\ terminals'[id].exists)
                 => /\ terminals'[id].active
                    /\ \A j \in Ids \ {id} : ~(terminals'[j].exists /\ terminals'[j].active)]_vars

\* Two sessions are registered, the one created first has been made active
\* again, and it alone is marked.
C21_Witness ==
    /\ \A i \in Ids : terminals[i].exists
    /\ Len(procs) = 2 /\ procs[1].id = "s1" /\ toRenderer = <<>>
    /\ getActiveId = "s1"
    /\ MarkedActive = {"s1"}


\* The error, activity and blocked flags of a session.
Flags(inst) == <<inst.hasErrors, inst.hasActivity, inst.isBlocked>>

\* A step of setActive: the only step that does not consume output.
SetActiveStep == stream' = stream /\ terminals' # terminals

\* C22: setActive(id) clears the error, activity and blocked flags of id and
\* leaves the flags of every other session as they were.
C22_SetActiveFlags ==
    [][SetActiveStep =>
          /\ Flags(terminals'[activeId']) = <<FALSE, FALSE, FALSE>>
          /\ \A j \in Ids \ {activeId'} : Flags(terminals'[j]) = Flags(terminals[j])]_vars

\* Both sessions carry flags: the active one an error flag, the other one the
\* activity and blocked flags, so a setActive of either clears some and must
\* keep the others.
C22_Witness ==
    /\ terminals[activeId].hasErrors
    /\ \E j \in Ids \ {activeId} : terminals[j].hasActivity /\ terminals[j].isBlocked

\* C23: the active id is always none or the id of a registered session.
C23_ActiveRegistered ==
    activeId = "null" \/ terminals[activeId].exists

\* The part of C23 that holds: when the active session is removed and another
\* one remains, a remaining session becomes the active one.
C23_RemoveReassigns ==
    [][\A id \in Ids :
          (activeId = id /\ terminals[id].exists /\ ~terminals'[id].exists
              /\ \E j \in Ids : terminals'[j].exists)
            => terminals'[activeId'].exists]_vars

\* The session of id has a process that is running, as far as the main process
\* knows.
LiveProcess(id) == shells[id] # 0 /\ procs[shells[id]].st = "alive"

\* Nothing about the session of id is under way: no spawn is due, requested or
\* unanswered, and no exit of one of its processes is still to be reported.
Settled(id) ==
    /\ id \notin rafPending
    /\ terminals[id].pending = <<>>
    /\ \A k \in DOMAIN toMain : toMain[k][2] # id
    /\ \A k \in DOMAIN toRenderer : toRenderer[k][2] # id
    /\ \A k \in DOMAIN procs : procs[k].id = id => procs[k].st # "dead"

\* A restart button or a reconnect overlay is shown in the panel of id.
CanRespawn(id) == terminals[id].restartBtn \/ terminals[id].deadOverlay

\* C24: whenever a registered session has no live process (after a spawn
\* failure, after an exit, after a failed restart or reconnect), a restart or
\* a reconnect action is available in its panel.
C24_RespawnAvailable ==
    \A id \in Ids :
        (terminals[id].exists /\ Settled(id) /\ ~LiveProcess(id)) => CanRespawn(id)

\* The part of C24 that holds: the reply to a successful re-spawn sets the
\* status of a registered session to idle.
C24_RespawnIdle ==
    [][\A id \in Ids :
          (/\ toRenderer # <<>> /\ Head(toRenderer) = <<"spawn:pid", id>>
           /\ toRenderer' = Tail(toRenderer)
           /\ terminals[id].exists /\ terminals[id].pending # <<>>
           /\ Head(terminals[id].pending) \in {"restart", "reconnect"})
            => agentStatus'[id] = "idle"]_vars

\* The main process handles a spawn, write, resize or kill request or the exit
\* of a pty of session a, or the renderer handles the reply or the exit event.
HandlesEventOf(a) ==
    \/ ptySpawnFail(a)
    \/ \E pid \in FreePids : ptySpawnOk(a, pid)
    \/ \E throws \in BOOLEAN : ptyWrite(a, throws)
    \/ \E throws \in BOOLEAN : ptyResize(a, throws)
    \/ ptyKill(a)
    \/ \E k \in 1..Len(procs) : procs[k].id = a /\ termOnExit(k)
    \/ spawnReply(a)
    \/ onTerminalExit(a)

\* The ProcessHandle of session b: the pty the map holds and its condition.
HandleOf(ps, sh, b) == IF sh[b] = 0 THEN <<0>> ELSE <<sh[b], ps[sh[b]]>>

\* C25: handling a spawn, write, resize, kill or exit event of session A leaves
\* the ProcessHandle, the ring buffer, the command-block history and the status
\* of every other session B unchanged.
C25_SessionIsolation ==
    [][\A a \in Ids : HandlesEventOf(a) =>
          \A b \in Ids \ {a} :
              /\ HandleOf(procs', shells', b) = HandleOf(procs, shells, b)
              /\ terminalBuffers'[b] = terminalBuffers[b]
              /\ terminals'[b].blocks = terminals[b].blocks
              /\ agentStatus'[b] = agentStatus[b]]_vars

\* Both sessions have a running shell with buffered output and status idle,
\* and one of them has been spawned after the other.
C25_Witness ==
    /\ \A i \in Ids : /\ LiveProcess(i) /\ agentStatus[i] = "idle"
                      /\ terminalBuffers[i] # NoBuf /\ terminalBuffers[i].lines # <<>>

\* C26: a disk-write failure during a buffer flush does not leave the flush
\* (nothing uncaught), leaves the ring buffers and the timer as they are, and
\* the tick after the failure writes every buffer again.
C26_FlushFailure ==
    /\ [](uncaught = {} /\ bufferFlushInterval = 1)
    /\ [][bufferFiles' # bufferFiles \/ uncaught' # uncaught
             => terminalBuffers' = terminalBuffers]_vars
    /\ [][(kaizenDirOk /\ bufferFiles' # bufferFiles)
             => DiskEqualsBuffers(bufferFiles', terminalBuffers)]_vars
    /\ [](kaizenDirOk => (ENABLED flushTick)
                         \/ DiskEqualsBuffers(bufferFiles, terminalBuffers))

\* Writes fail, both buffers hold lines and a file written before the failure
\* began is out of date: the ticks since then have written nothing.
C26_Witness ==
    /\ ~kaizenDirOk
    /\ uncaught = {}
    /\ \A id \in Ids : terminalBuffers[id].exists /\ terminalBuffers[id].lines # <<>>
    /\ \E id \in Ids : bufferFiles[id].exists /\ bufferFiles[id] # terminalBuffers[id]

\* C27 as stated: after any appendSessionLog call the log holds at most 10,000
\* lines, and a call rotates exactly when the log with the new line has more
\* than 10,000 lines, keeping exactly the 5,000 most recent ones, in order, the
\* new line last.
C27_LogRotation ==
    /\ [](Len(sessionLog) <= LOG_ROTATE_LINES)
    /\ [][sessionLog' # sessionLog =>
             LET full == Append(sessionLog, sessionLog'[Len(sessionLog')])
             IN  sessionLog' = IF Len(full) > LOG_ROTATE_LINES
                               THEN LastN(full, LOG_KEEP_LINES)
                               ELSE full]_vars

\* The parts of C27 that hold: the log never exceeds 10,000 lines, and every
\* call leaves the most recent lines, in order, with the new line last.
C27_CapAndOrder ==
    /\ [](Len(sessionLog) <= LOG_ROTATE_LINES)
    /\ [][sessionLog' # sessionLog =>
             LET full == Append(sessionLog, sessionLog'[Len(sessionLog')])
             IN  sessionLog' = LastN(full, Len(sessionLog'))]_vars

\* The renderer handles the exit event of the registered session id, whose
\* agent was spawned for a Kanban task, with the given exit code.
HandlesTaskExit(id, exitCode) ==
    /\ TakesExit(id)
    /\ Head(toRenderer)[3] = exitCode
    /\ terminals[id].exists /\ tasks[id].linked

\* C28: when an agent spawned for a Kanban task exits with code 0, the handling
\* of the exit leaves the task in the column done; when it exits with another
\* code, the handling does not move the task to done.
C28_AutoClose ==
    [][\A id \in Ids :
          /\ HandlesTaskExit(id, 0) => tasks'[id].status = "done"
          /\ \A exitCode \in ExitCodes \ {0} :
                HandlesTaskExit(id, exitCode) => tasks'[id].status # "done"]_vars

\* The part of C28 that holds: an exit with a code other than 0 never moves the
\* task to done, and an exit with code 0 closes the task whose agentId field
\* names the agent.
C28_NonZeroAndAssigned ==
    [][\A id \in Ids :
          /\ (HandlesTaskExit(id, 0) /\ tasks[id].agentId) => tasks'[id].status = "done"
          /\ \A exitCode \in ExitCodes \ {0} :
                HandlesTaskExit(id, exitCode) => tasks'[id].status # "done"]_vars

\* The line buffer of session id once the chunk of this step is appended, and
\* the last of its lines, trimmed.
AccumulatedBuffer(id) ==
    terminals[id].lineBuffer \o StripCR(AnsiStripFrom(ChunkHandled(id), 1))

LastBufferLine(buf) ==
    LET lines == SplitLF(buf, <<>>) IN Trim(lines[Len(lines)])

EndsInGlyph(line) == line # <<>> /\ line[Len(line)] \in Glyphs

\* C29: a chunk changes the committed history of a session only if, with the
\* chunk, the last line of the accumulated buffer ends in a prompt glyph and
\* the buffer is longer than 10 characters; a prompt that arrives while the
\* buffer has at most 10 characters closes nothing: the history, the open block
\* and the buffer are kept.
C29_CommitOnlyAtPrompt ==
    [][\A id \in Ids :
          (stream'[id].pos > stream[id].pos /\ terminals[id].exists) =>
             LET buf == AccumulatedBuffer(id)
                 prompt == EndsInGlyph(LastBufferLine(buf))
             IN  /\ terminals'[id].blocks # terminals[id].blocks
                      => prompt /\ Len(buf) > MinBufferLength
                 /\ (prompt /\ Len(buf) <= MinBufferLength)
                      => /\ terminals'[id].blocks = terminals[id].blocks
                         /\ terminals'[id].lineBuffer = buf
                         /\ terminals'[id].currentBlock.open = terminals[id].currentBlock.open
                         /\ terminals[id].currentBlock.command # <<>>
                              => terminals'[id].currentBlock.command
                                    = terminals[id].currentBlock.command]_vars

\* A session has an open block with its command and a short buffer that ends
\* in a prompt glyph: a prompt that closed nothing.
C29_Witness ==
    \E id \in Ids :
        /\ terminals[id].currentBlock.open
        /\ terminals[id].currentBlock.command # <<>>
        /\ terminals[id].lineBuffer # <<>>
        /\ Len(terminals[id].lineBuffer) <= MinBufferLength
        /\ EndsInGlyph(LastBufferLine(terminals[id].lineBuffer))

\* A pty:spawn has succeeded in this run.
SpawnedOk == \E k \in DOMAIN procs : procs[k].wired

\* The application has not been shut down.
BeforeShutdown == appPhase \in {"boot", "ready", "closed"}

\* C30: from the first successful spawn until shutdown exactly one flush
\* interval is set, however many spawns follow; a tick of the interval writes
\* every buffer to its file; so while the interval is set the files come to
\* equal the buffers once the output has stopped.
C30_OneFlushTimer ==
    /\ [](bufferFlushInterval <= 1)
    /\ []((SpawnedOk /\ BeforeShutdown) => bufferFlushInterval = 1)
    /\ [][flushTick => DiskEqualsBuffers(bufferFiles', terminalBuffers')]_vars
    /\ [](bufferFlushInterval = 1
            => <>(DiskEqualsBuffers(bufferFiles, terminalBuffers) \/ bufferFlushInterval = 0))

\* Two spawns have succeeded, one interval is set, and since the shells
\* stopped printing a tick has brought both log files up to date.
C30_Witness ==
    /\ Len(procs) = 2 /\ \A k \in DOMAIN procs : procs[k].wired
    /\ appPhase = "ready"
    /\ bufferFlushInterval = 1
    /\ \A id \in Ids : /\ terminalBuffers[id].exists /\ terminalBuffers[id].lines # <<>>
                       /\ bufferFiles[id] = terminalBuffers[id]
----------------------------------------------------------------------------
(* Claims about removal, chunking and respawning *)

\* removeTerminal(id) has run: the instance is gone and so is the agent.
Removed(id) == ~terminals[id].exists /\ agentStatus[id] = "removed"

\* C31: after a session has been removed, the renderer's handling of a data or
\* exit event that carries its id changes no status, dispatches no event (no
\* error, blocked or exit event), commits no block and leaves the instances of
\* the remaining sessions, the active id and the tasks as they are.
C31_NoEventAfterRemove ==
    [][\A id \in Ids :
          (Removed(id) /\ (stream'[id].pos > stream[id].pos \/ TakesExit(id)))
              => /\ agentStatus' = agentStatus
                 /\ dispatched' = {}
                 /\ terminals' = terminals
                 /\ activeId' = activeId
                 /\ tasks' = tasks]_vars

\* A removed session whose failing command was printed to the end without a
\* prompt boundary being seen (chunks came after the removal), whose killed
\* shell has exited with the exit event handled, next to a session that is
\* still registered.
C31_Witness ==
    \E id \in Ids :
        /\ Removed(id)
        /\ stream[id].segs = Failed /\ Delivered(id) /\ stream[id].boundaries = 0
        /\ \E k \in 1..Len(procs) :
              procs[k].id = id /\ procs[k].killed /\ procs[k].st = "exited"
        /\ toRenderer = <<>>
        /\ \E j \in Ids \ {id} : terminals[j].exists

\* The text of the scripted output of id, and the lines appendToBuffer pushes
\* when the whole text comes as one chunk.
WholeText(id) == Flatten(stream[id].segs, 1, Len(stream[id].segs))
OneChunkLines(id) == ChunkLines(WholeText(id))

\* C32: the ring buffer's content depends only on the concatenated output of
\* the session: when a text has arrived in any split into consecutive chunks,
\* the buffer holds the lines it holds when the text arrives as one chunk.
C32_ChunkingInvariant ==
    \A id \in Ids :
        Delivered(id) => terminalBuffers[id] = Buf(OneChunkLines(id))

\* Every chunk boundary of the output of id follows a line feed.
CutAtLines(id) ==
    \A k \in 1..Len(stream[id].segs) - 1 :
        stream[id].segs[k][Len(stream[id].segs[k])] = LF

\* The part of C32 that holds: a text cut only after line feeds yields the
\* lines of the one-chunk append, however the pieces are grouped into chunks.
C32_LineAlignedChunks ==
    \A id \in Ids :
        (Delivered(id) /\ CutAtLines(id)) => terminalBuffers[id] = Buf(OneChunkLines(id))

\* A text cut after line feeds has arrived in more than one chunk.
C32_LineAlignedWitness ==
    \E id \in Ids :
        /\ Delivered(id) /\ CutAtLines(id)
        /\ Len(terminalBuffers[id].lines) = 3
        /\ \E j \in Ids \ {id} : stream[j].pos = 0

\* The exit callback of pty k runs in this step for a process that was killed
\* while the id of the pty holds the handle of a later spawn.
StaleExit(k) ==
    /\ procs[k].killed /\ procs[k].st = "dead" /\ procs'[k].st = "exited"
    /\ shells[procs[k].id] \notin {0, k}

\* C33: when a session was killed and spawned again with the same id, the exit
\* event of the old process removes neither the handle of the new process nor
\* its entry of the PID lock, so that writes to the id still reach the new
\* process.
C33_StaleExitSparesHandle ==
    [][\A k \in 1..Len(procs) :
          StaleExit(k)
              => /\ shells'[procs[k].id] = shells[procs[k].id]
                 /\ pidsFile'.exists
                 /\ <<procs[k].id, procs[shells[procs[k].id]].pid>> \in pidsFile'.entries]_vars

\* C34: orphan recovery never signals a process of a session spawned in the
\* current run: when the delayed forced kill armed for a lock entry fires, every
\* process of this run that was alive is alive afterwards, also one that has
\* been given the pid of the entry in the meantime.
C34_RecoverySparesThisRun ==
    [][\A p \in OrphanPids :
          orphanKillTimer(p)
              => \A k \in 1..Len(procs) :
                    procs[k].st = "alive" => procs'[k].st = "alive"]_vars

----------------------------------------------------------------------------
(* Claims about the error flag of blocks *)

\* The chunk handled for id in this step commits the open block.
Commits(id) ==
    /\ stream'[id].pos > stream[id].pos
    /\ terminals[id].exists
    /\ Len(terminals'[id].blocks) = Len(terminals[id].blocks) + 1

\* The chunk handled for id in this step arrives while a block is open and
\* does not end at a prompt boundary.
Extends(id) ==
    /\ stream'[id].pos > stream[id].pos
    /\ terminals[id].exists
    /\ terminals[id].currentBlock.open
    /\ ~AtBoundary(terminals[id], ChunkHandled(id))

\* The error flag of the open block follows the chunks: a chunk that arrives
\* while the block is open sets it if it matches the error signal and leaves
\* it as it was otherwise.
ErrorFlagFollowsChunks ==
    \A id \in Ids :
        Extends(id) =>
            terminals'[id].currentBlock.hasError
                = (terminals[id].currentBlock.hasError \/ ANSI_ERROR_RE(ChunkHandled(id)))

\* C35: a committed block has hasError = true if and only if one of the chunks
\* received while it was open, the chunk that closes it included, matched the
\* error signal: the flag follows the chunks while the block is open, and the
\* committed block has it set iff it was set before or the closing chunk matches.
C35_ErrorFlagOfBlock ==
    [][ /\ ErrorFlagFollowsChunks
        /\ \A id \in Ids :
              Commits(id) =>
                  terminals'[id].blocks[Len(terminals'[id].blocks)].hasError
                      = (terminals[id].currentBlock.hasError
                            \/ ANSI_ERROR_RE(ChunkHandled(id))) ]_vars

\* The part of C35 that holds: the flag follows the chunks that do not close
\* the block, and a block is committed with the flag it had.
C35_ErrorFlagBeforeClose ==
    [][ /\ ErrorFlagFollowsChunks
        /\ \A id \in Ids :
              Commits(id) =>
                  terminals'[id].blocks[Len(terminals'[id].blocks)]
                      = terminals[id].currentBlock ]_vars

\* A block was committed with the error flag set.
C35_Witness ==
    \E id \in Ids :
        /\ terminals[id].exists
        /\ \E b \in 1..Len(terminals[id].blocks) : terminals[id].blocks[b].hasError

----------------------------------------------------------------------------
(* Claims about shutdown *)

\* before-quit has run to its end, and the exit of every process that was
\* killed has been handled.
ShutDownAndSettled ==
    /\ appPhase \in {"quitting", "willExit", "exited"}
    /\ \A k \in 1..Len(procs) : procs[k].killed => procs[k].st = "exited"

\* Every process spawned in the run has been sent a kill, unless it had ended
\* by itself.
AllKilled == \A k \in 1..Len(procs) : procs[k].killed \/ procs[k].st # "alive"

\* The part of C36 that holds: after before-quit the handle map is empty.
C36_NoHandleAfterQuit ==
    appPhase \in {"quitting", "willExit", "exited"} => HasHandle(shells) = {}

\* C36: once before-quit has completed and the late exit events of the killed
\* processes have been handled, every process spawned during the run has been
\* sent a kill, the handle map is empty and the PID lock file does not exist.
C36_CleanShutdown ==
    ShutDownAndSettled
        => /\ AllKilled
           /\ HasHandle(shells) = {}
           /\ ~pidsFile.exists

\* The same with the lock left aside: the processes alone.
C36_EveryProcessKilled == ShutDownAndSettled => AllKilled

\* The same with the processes left aside: the lock alone.
C36_LockGone == (ShutDownAndSettled /\ AllKilled) => ~pidsFile.exists

\* Shutdown with a killed session whose exit event came late.
C36_Witness ==
    /\ appPhase = "exited"
    /\ ShutDownAndSettled
    /\ \E k \in 1..Len(procs) : procs[k].killed

----------------------------------------------------------------------------
(* Claims about the natural-language overlay *)

\* C37: the keystrokes of a session are withheld only while the overlay is open
\* for that session: the intercepting id is set iff an overlay is on display,
\* and then it names a registered session, the one the overlay was opened for.
C37_InterceptIffOverlay ==
    /\ (nlActiveAgentId # "null") <=> (nlOverlay # "null")
    /\ nlActiveAgentId # "null"
          => terminals[nlActiveAgentId].exists /\ nlActiveAgentId = nlOverlay

\* The part of C37 that holds: closing the overlay clears the intercepting
\* id, so that no session's keystrokes are withheld afterwards.
C37_CloseClearsIntercept ==
    [][(nlOverlay # "null" /\ nlOverlay' = "null") => nlActiveAgentId' = "null"]_vars

----------------------------------------------------------------------------
(* Claims about the shared tasks file *)

\* Nothing is on its way: no invocation, no handler between load and save, no
\* timeout of the watcher, no tasks:updated message.
KanbanSettled ==
    /\ taskCalls = <<>> /\ appOp = NoOp /\ mcpOp = NoOp
    /\ ~debounceTimer /\ tasksUpdated = <<>>

\* C38: a change the MCP server writes to the tasks file, a change of the
\* status of an existing task included, is reflected in the task list of the
\* board once the watcher's message for it has been handled; no update is
\* skipped for a pendingWrite flag left over from an earlier write of the board.
C38_ExternalChangeReflected ==
    (KanbanSettled /\ lastWrite = "mcp") => kanbanTasks = normalizeFileTasks(tasksFile)

\* The second half of C38 alone: a snapshot is skipped for pendingWrite only
\* if it holds nothing the board does not show.
C38_NoStaleSkip ==
    [][(tasksUpdated # <<>> /\ tasksUpdated' = Tail(tasksUpdated) /\ pendingWrite)
          => normalizeFileTasks(Head(tasksUpdated)) = kanbanTasks]_vars

\* C39: no creation, update or deletion is lost when the application and the
\* MCP server change the tasks file concurrently: what a handler saves is its
\* change applied to the file as it is, the changes others saved included.
C39_NoLostUpdate ==
    [][/\ (appOp # NoOp /\ appOp' = NoOp) => tasksFile' = ApplyOp(appOp, tasksFile)
       /\ (mcpOp # NoOp /\ mcpOp' = NoOp) => tasksFile' = ApplyOp(mcpOp, tasksFile)]_vars

====
